---------------------------- MODULE Spec2Model ----------------------------
(***************************************************************************)
(* Model of trip_planner_mail.py: the budget breakdown, the day-by-day     *)
(* itinerary, the price extraction and the gathering of travel data.       *)
(***************************************************************************)
EXTENDS Integers, Sequences, FiniteSets, TLC

VARIABLES
    user_data,      \* the request dictionary built by collect_user_inputs
    budget_pc,      \* position of add_enhanced_budget_breakdown
    budget_rows,    \* rows of the budget table, the TOTAL BUDGET row last
    itin_pc,        \* position of add_detailed_day_by_day_itinerary
    day_num,        \* loop variable of the exploration days
    doc,            \* what the itinerary section has written so far, in order
    text,           \* the argument of extract_prices_from_text
    price_pc,       \* position of extract_prices_from_text
    price_result,   \* what extract_prices_from_text returned or raised
    gather_pc,      \* position of gather_travel_data: the provider queried next, returned or raised
    travel_data,    \* the dictionary gather_travel_data builds
    calls,          \* the provider queries made so far, in order
    responses,      \* how each provider queried so far has answered
    clock,          \* the day datetime.now() gives while the document is built
    fpdf,           \* the library behind "from fpdf import FPDF": "PyFPDF" or "fpdf2"
    pdf_pc,         \* position of create_structured_pdf
    pdf,            \* the sections create_structured_pdf has written so far, in order
    secrets,        \* st.secrets: the sender's address and password, "" when not set
    mail_pc,        \* position of send_email
    mail_result,    \* what send_email returned
    smtp,           \* what the SMTP server has been asked so far, in order
    groq_client,    \* self.groq_client: "none" or "client"
    run_pc,         \* position of run
    trip_plan,      \* what generate_trip_plan_with_data returned
    shown           \* what run has put on the page so far, in order

budgetVars == <<budget_pc, budget_rows>>
itinVars == <<itin_pc, day_num, doc>>
priceVars == <<text, price_pc, price_result>>
gatherVars == <<gather_pc, travel_data, calls, responses>>
pdfVars == <<clock, fpdf, pdf_pc, pdf>>
mailVars == <<secrets, mail_pc, mail_result, smtp>>
runVars == <<groq_client, run_pc, trip_plan, shown>>
appVars == <<pdfVars, mailVars, runVars>>
vars == <<user_data, budgetVars, itinVars, priceVars, gatherVars, appVars>>

\* the variables of a function that is not running
BudgetIdle == budget_pc = "idle" /\ budget_rows = <<>>
ItineraryIdle == itin_pc = "idle" /\ day_num = 0 /\ doc = <<>>
PricesIdle == text = <<>> /\ price_pc = "idle" /\ price_result = [raised |-> "", prices |-> <<>>]
GatherIdle == gather_pc = "idle" /\ travel_data = <<>> /\ calls = <<>> /\ responses = <<>>
PdfIdle == fpdf = "fpdf2" /\ pdf_pc = "idle" /\ pdf = <<>>
MailIdle == secrets = <<>> /\ mail_pc = "idle" /\ mail_result = FALSE /\ smtp = <<>>
RunIdle == groq_client = "none" /\ run_pc = "idle" /\ trip_plan = <<>> /\ shown = <<>>

(***************************************************************************)
(* Bounds of the model                                                     *)
(***************************************************************************)
MaxBudgetIdx == 3
MaxSmallPct == 3
MaxDuration == 8
MaxInterests == 2
MaxTravelers == 2
MaxTokens == 4
\* groups of three digits in the long numbers tried
LongNumberGroups == 102
\* stride between the budgets tried; it makes total_budget * pct / 100 fall between integers
BudgetStride == 333
\* days that may pass between filling in the form and building the document
MaxClockDays == 1
\* the longest trip of the documents
MaxDocumentDays == 4

(***************************************************************************)
(* Request values                                                          *)
(***************************************************************************)
\* st.number_input("Total Budget (INR)*", min_value=1000, ...)
BudgetMin == 1000

Budgets == {BudgetMin + k * BudgetStride : k \in 0..MaxBudgetIdx} \cup {100000}

\* st.slider(..., 0, 100, default): integers 0..100
PctMin == 0
PctMax == 100
Pcts == {p \in (0..MaxSmallPct) \cup {10, 15, 20, 25, 40, 100} : PctMin <= p /\ p <= PctMax}

\* interests_opts of the form, without Nightlife, Relaxation and Photography,
\* which no code of the itinerary tells apart from Beaches
InterestOpts == {"Adventure", "Culture", "Nature", "Food", "Shopping", "History", "Beaches"}

\* st.number_input("Number of Travelers*", min_value=1, value=2)
TravelersMin == 1

\* the day the form offers first (date.today()), as a day number
Today == 100

Destinations == {"Delhi", "delhi", "Goa"}

\* an address the pattern of run accepts, as a sequence of characters
EmailAsha == <<"a", "@", "b", ".", "i", "n">>

\* the values collect_user_inputs puts in the fields when the form is left
\* alone, with the text fields the pipeline requires filled in
DefaultRequest ==
    [name |-> "Asha", email |-> EmailAsha, mobile |-> "+91 9876543210",
     emergency_contact |-> "", departure_city |-> "Mumbai",
     total_budget |-> 50000, budget_category |-> "Budget (Rs.5K-25K)",
     accommodation_pct |-> 40, transport_pct |-> 25,
     food_pct |-> 20, activities_pct |-> 15,
     destination |-> "Goa", departure_date |-> Today, return_date |-> Today,
     num_travelers |-> 2, trip_type |-> "Family",
     transport_mode |-> <<"Flight">>, travel_pace |-> "Relaxed",
     dietary_pref |-> "Vegetarian",
     interests |-> <<"Culture", "Food", "Beaches">>]

(***************************************************************************)
(* add_enhanced_budget_breakdown                                           *)
(***************************************************************************)
\* int(a / b) for b > 0: true division, then truncation toward zero.  The
\* float quotient is exact enough for |a| < 2^53, far above
\* total_budget * 100 for the budgets of the form.
IntTrueDiv(a, b) == IF a >= 0 THEN a \div b ELSE -((-a) \div b)

\* the same amount rounded to the nearest integer instead of truncated
CategoryAmountRounded(total_budget, pct) == IntTrueDiv(total_budget * pct + 50, 100)

\* int(total_budget * user_data.get('<category>_pct', ...) / 100)
CategoryAmount(total_budget, pct) == IntTrueDiv(total_budget * pct, 100)

\* a remainder that forgets the activities amount
MiscellaneousWithoutActivities(total_budget, accommodation, transport, food, activities) ==
    total_budget - (accommodation + transport + food)

\* a remainder clamped at zero
MiscellaneousClamped(total_budget, accommodation, transport, food, activities) ==
    IF total_budget - (accommodation + transport + food + activities) < 0
    THEN 0
    ELSE total_budget - (accommodation + transport + food + activities)

\* miscellaneous = total_budget - (accommodation + transport + food + activities)
Miscellaneous(total_budget, accommodation, transport, food, activities) ==
    total_budget - (accommodation + transport + food + activities)

\* budget_data followed by total_row
BudgetTable(ud) ==
    LET total_budget == ud.total_budget
        accommodation == CategoryAmount(total_budget, ud.accommodation_pct)
        transport == CategoryAmount(total_budget, ud.transport_pct)
        food == CategoryAmount(total_budget, ud.food_pct)
        activities == CategoryAmount(total_budget, ud.activities_pct)
        miscellaneous == Miscellaneous(total_budget, accommodation, transport, food, activities)
    IN  << [category |-> "Transportation", amount |-> transport],
           [category |-> "Accommodation", amount |-> accommodation],
           [category |-> "Food & Dining", amount |-> food],
           [category |-> "Activities", amount |-> activities],
           [category |-> "Miscellaneous", amount |-> miscellaneous],
           [category |-> "TOTAL BUDGET", amount |-> total_budget] >>

add_enhanced_budget_breakdown ==
    /\ budget_pc = "start"
    /\ budget_rows' = BudgetTable(user_data)
    /\ budget_pc' = "done"
    /\ UNCHANGED <<user_data, itinVars, priceVars, gatherVars, appVars>>

BudgetRequests ==
    {[DefaultRequest EXCEPT !.total_budget = b, !.accommodation_pct = a, !.transport_pct = t,
                            !.food_pct = f, !.activities_pct = c] :
        b \in Budgets, a \in Pcts, t \in Pcts, f \in Pcts, c \in Pcts}

InitBudget ==
    /\ user_data \in BudgetRequests
    /\ budget_pc = "start"
    /\ budget_rows = <<>>
    /\ ItineraryIdle
    /\ PricesIdle
    /\ GatherIdle
    /\ clock = Today
    /\ PdfIdle
    /\ MailIdle
    /\ RunIdle

NextBudget == add_enhanced_budget_breakdown

SpecBudget == InitBudget /\ [][NextBudget]_vars

\* the amount of a category in the finished table
Amount(category) ==
    LET i == CHOOSE j \in 1..Len(budget_rows) : budget_rows[j].category = category
    IN  budget_rows[i].amount

FourAmounts ==
    Amount("Accommodation") + Amount("Transportation") + Amount("Food & Dining") + Amount("Activities")

PctSum ==
    user_data.accommodation_pct + user_data.transport_pct + user_data.food_pct + user_data.activities_pct

\* q is floor(n / 100)
IsFloorOfHundredth(q, n) == 100 * q <= n /\ n < 100 * (q + 1)

(***************************************************************************)
(* C1: the five amounts of the breakdown sum to exactly the total budget,  *)
(* for every budget and every tuple of percentages.                        *)
(***************************************************************************)
C1_AmountsSumToTotal ==
    budget_pc = "done" =>
        FourAmounts + Amount("Miscellaneous") = user_data.total_budget

\* a breakdown whose percentages do not sum to 100 and where flooring drops a remainder
C1_Witness ==
    /\ budget_pc = "done"
    /\ PctSum # 100
    /\ (user_data.total_budget * user_data.accommodation_pct) % 100 # 0
    /\ FourAmounts + Amount("Miscellaneous") = user_data.total_budget

C3_NegativeMiscellaneousPreserved ==
    (budget_pc = "done" /\ FourAmounts > user_data.total_budget) =>
        /\ Amount("Miscellaneous") = user_data.total_budget - FourAmounts
        /\ Amount("Miscellaneous") < 0
        /\ IsFloorOfHundredth(Amount("Accommodation"), user_data.total_budget * user_data.accommodation_pct)
        /\ IsFloorOfHundredth(Amount("Transportation"), user_data.total_budget * user_data.transport_pct)
        /\ IsFloorOfHundredth(Amount("Food & Dining"), user_data.total_budget * user_data.food_pct)
        /\ IsFloorOfHundredth(Amount("Activities"), user_data.total_budget * user_data.activities_pct)

\* a breakdown whose percentages sum above 100
C3_Witness ==
    /\ budget_pc = "done"
    /\ PctSum > 100
    /\ FourAmounts > user_data.total_budget
    /\ Amount("Miscellaneous") < 0

(***************************************************************************)
(* add_detailed_day_by_day_itinerary                                       *)
(***************************************************************************)
\* duration = 7 when the dates cannot be subtracted
FallbackDuration == 7

\* a date field that holds no date
NoDate == -1

\* duration = (return_date - departure_date).days + 1, or 7 when that raises
Duration(ud) ==
    IF ud.return_date = NoDate \/ ud.departure_date = NoDate
    THEN FallbackDuration
    ELSE ud.return_date - ud.departure_date + 1

\* x in a Python list
Contains(list, x) == \E i \in 1..Len(list) : list[i] = x

\* if '<interest>' in interests: themes.append('<theme>')
AppendIf(themes, interests, interest, theme) ==
    IF Contains(interests, interest) THEN Append(themes, theme) ELSE themes

DefaultThemes == <<"City Exploration", "Cultural Tour", "Nature Walk">>

\* the theme of an interest, or "" when it has none
ThemeOf(interest) ==
    CASE interest = "History" -> "Historical Exploration"
      [] interest = "Nature" -> "Nature and Relaxation"
      [] interest = "Food" -> "Culinary Adventure"
      [] interest = "Culture" -> "Cultural Immersion"
      [] interest = "Adventure" -> "Adventure Activities"
      [] interest = "Shopping" -> "Shopping and Markets"
      [] OTHER -> ""

RECURSIVE ThemesAsListed(_)
\* the themes of the interests, in the order the traveler listed them
ThemesAsListed(interests) ==
    IF interests = <<>> THEN <<>>
    ELSE (IF ThemeOf(Head(interests)) = "" THEN <<>> ELSE <<ThemeOf(Head(interests))>>)
         \o ThemesAsListed(Tail(interests))

\* a theme list in the order of the traveler's list
ThemesInListedOrder(interests) ==
    IF ThemesAsListed(interests) = <<>> THEN DefaultThemes ELSE ThemesAsListed(interests)

\* a theme list without the default cycle
ThemesWithoutDefault(interests) ==
    AppendIf(AppendIf(AppendIf(AppendIf(AppendIf(AppendIf(<<>>,
        interests, "History", "Historical Exploration"),
        interests, "Nature", "Nature and Relaxation"),
        interests, "Food", "Culinary Adventure"),
        interests, "Culture", "Cultural Immersion"),
        interests, "Adventure", "Adventure Activities"),
        interests, "Shopping", "Shopping and Markets")

\* the themes of the selected interests with the default cycle after them
ThemesThenDefaults(interests) == ThemesAsListed(interests) \o DefaultThemes

\* the list themes of get_day_theme, before it is indexed
Themes(interests) ==
    LET themes == AppendIf(AppendIf(AppendIf(AppendIf(AppendIf(AppendIf(<<>>,
                    interests, "History", "Historical Exploration"),
                    interests, "Nature", "Nature and Relaxation"),
                    interests, "Food", "Culinary Adventure"),
                    interests, "Culture", "Cultural Immersion"),
                    interests, "Adventure", "Adventure Activities"),
                    interests, "Shopping", "Shopping and Markets")
    IN  IF themes = <<>> THEN DefaultThemes ELSE themes

\* a theme that stays on the last theme instead of cycling
get_day_theme_no_cycle(dn, interests) ==
    LET themes == Themes(interests)
        theme_index == IF dn - 2 < Len(themes) THEN dn - 2 ELSE Len(themes) - 1
    IN  themes[theme_index + 1]

\* get_day_theme(day_num, interests); Python lists are indexed from 0
get_day_theme(dn, interests) ==
    LET themes == Themes(interests)
        theme_index == (dn - 2) % Len(themes)
    IN  themes[theme_index + 1]

\* str.lower() on the destinations, trip types, paces and interests of the
\* model; a string without upper-case letters is left as it is
Lower(str) ==
    CASE str = "Delhi" -> "delhi"
      [] str = "DELHI" -> "delhi"
      [] str = "Goa" -> "goa"
      [] str = "Family" -> "family"
      [] str = "Couple" -> "couple"
      [] str = "Solo" -> "solo"
      [] str = "Friends" -> "friends"
      [] str = "Business" -> "business"
      [] str = "Relaxed" -> "relaxed"
      [] str = "Moderate" -> "moderate"
      [] str = "Fast-paced" -> "fast-paced"
      [] str = "Culture" -> "culture"
      [] str = "Food" -> "food"
      [] str = "Beaches" -> "beaches"
      [] str = "History" -> "history"
      [] str = "Nature" -> "nature"
      [] str = "Adventure" -> "adventure"
      [] str = "Shopping" -> "shopping"
      [] str = "Photography" -> "photography"
      [] str = "Nightlife" -> "nightlife"
      [] str = "Relaxation" -> "relaxation"
      [] OTHER -> str

\* a template string as str.format reads it: literal text and replacement fields
Lit(literal) == [lit |-> literal]
Field(field_name) == [field |-> field_name]

Template(m, mc, a, ac, e, ec) ==
    [morning |-> m, morning_cost |-> mc, afternoon |-> a, afternoon_cost |-> ac,
     evening |-> e, evening_cost |-> ec]

DelhiTemplates ==
    [t \in {"Historical Exploration", "Nature and Relaxation", "Culinary Adventure",
            "Cultural Immersion", "Adventure Activities", "Shopping and Markets", "default"} |->
      CASE t = "Historical Exploration" -> Template(
             <<Lit("Visit the magnificent Red Fort, a UNESCO World Heritage site with guided audio tour. (Rs. 200 per person)")>>, 200,
             <<Lit("Explore Jama Masjid and Chandni Chowk - try street kebabs, capture bustling lanes and traditional markets.")>>, 150,
             <<Lit("Sunset at Rooftop Cafe in Connaught Place with cocktails and live music. (Rs. 800 per person)")>>, 800)
        [] t = "Nature and Relaxation" -> Template(
             <<Lit("Visit the beautiful Akshardham Temple and enjoy the musical fountain show. (Rs. 150 per person)")>>, 150,
             <<Lit("Explore the serene Hauz Khas Village, known for its lakes, gardens, and shopping options.")>>, 0,
             <<Lit("Enjoy a relaxing sunset cruise on the Yamuna River. (Rs. 800 per person)")>>, 800)
        [] t = "Culinary Adventure" -> Template(
             <<Lit("Food walking tour of Old Delhi - taste parathas at Paranthe Wali Gali. (Rs. 300 per person)")>>, 300,
             <<Lit("Cooking class with local chef - learn to make traditional Delhi dishes. (Rs. 1200 per person)")>>, 1200,
             <<Lit("Dinner at famous Karim's restaurant - try their legendary mutton korma and kebabs. (Rs. 600 per person)")>>, 600)
        [] t = "Cultural Immersion" -> Template(
             <<Lit("Visit Humayun's Tomb, a UNESCO site and architectural marvel. (Rs. 40 per person)")>>, 40,
             <<Lit("Explore National Museum and Gandhi Smriti - rich Indian history and culture. (Rs. 100 per person)")>>, 100,
             <<Lit("Cultural performance at India Habitat Centre or local cultural center. (Rs. 500 per person)")>>, 500)
        [] t = "Adventure Activities" -> Template(
             <<Lit("Day-trip to Sanjay Van (Aravalli ridge) - guided trek and nature walk. Free entry, bring water and snacks.")>>, 0,
             <<Lit("Visit Garden of Five Senses for adventure activities and photography. (Rs. 30 per person)")>>, 30,
             <<Lit("Go-karting or paintball at local adventure parks. (Rs. 1000 per person)")>>, 1000)
        [] t = "Shopping and Markets" -> Template(
             <<Lit("Explore Dilli Haat - handicrafts, textiles, and souvenirs from all over India. (Rs. 50 entry)")>>, 50,
             <<Lit("Shopping at Connaught Place and Khan Market - books, clothes, and local items.")>>, 0,
             <<Lit("Street shopping at Sarojini Nagar Market - bargaining and local fashion finds.")>>, 0)
        [] OTHER -> Template(
             <<Lit("City sightseeing tour covering major attractions and landmarks. (Rs. 300 per person)")>>, 300,
             <<Lit("Local market visit and cultural exploration with guide.")>>, 200,
             <<Lit("Traditional dinner and cultural show. (Rs. 700 per person)")>>, 700)]

GenericTemplates ==
    [t \in {"Historical Exploration", "Nature and Relaxation", "default"} |->
      CASE t = "Historical Exploration" -> Template(
             <<Lit("Visit historical monuments and heritage sites in "), Field("destination"), Lit(". (Rs. "), Field("cost_per_person"), Lit(" per person)")>>, 200,
             <<Lit("Guided heritage walk and museum visits in old city areas.")>>, 150,
             <<Lit("Traditional dinner at heritage restaurant. (Rs. "), Field("cost_per_person"), Lit(" per person)")>>, 600)
        [] t = "Nature and Relaxation" -> Template(
             <<Lit("Nature walk in "), Field("destination"), Lit(" gardens and parks. (Rs. "), Field("cost_per_person"), Lit(" per person)")>>, 100,
             <<Lit("Relaxing time at botanical gardens or lakeside areas.")>>, 0,
             <<Lit("Sunset viewing at scenic location with refreshments. (Rs. "), Field("cost_per_person"), Lit(" per person)")>>, 400)
        [] OTHER -> Template(
             <<Lit("City exploration and major attractions tour. (Rs. "), Field("cost_per_person"), Lit(" per person)")>>, 300,
             <<Lit("Local culture and market exploration.")>>, 200,
             <<Lit("Traditional dinner and entertainment. (Rs. "), Field("cost_per_person"), Lit(" per person)")>>, 700)]

\* get_activity_templates; interests, dietary_pref and num_travelers are not used by it
get_activity_templates(destination) ==
    IF Lower(destination) = "delhi" THEN DelhiTemplates ELSE GenericTemplates

\* activity_templates.get(day_theme, activity_templates['default']): the
\* default is looked up before get is called, whatever the theme
ResolveRaises(activity_templates) == "default" \notin DOMAIN activity_templates

\* a lookup that ignores the theme
ResolveActivitiesAlwaysDefault(activity_templates, day_theme) ==
    activity_templates["default"]

\* the template of the theme, or the default one when the theme has none
ResolveActivities(activity_templates, day_theme) ==
    IF day_theme \in DOMAIN activity_templates
    THEN activity_templates[day_theme]
    ELSE activity_templates["default"]

\* the replacement fields a template string declares
DeclaredFields(description) ==
    {description[i].field : i \in {j \in 1..Len(description) : "field" \in DOMAIN description[j]}}

\* keyword arguments without cost_per_person
FormatArgumentsWithoutCostPerPerson(destination, cost, num_travelers) ==
    [destination |-> destination, total_cost |-> ToString(cost * num_travelers)]

\* the keyword arguments of .format(destination=..., cost_per_person=..., total_cost=...)
FormatArguments(destination, cost, num_travelers) ==
    [destination |-> destination, cost_per_person |-> ToString(cost),
     total_cost |-> ToString(cost * num_travelers)]

RECURSIVE FormatPieces(_, _)
\* the literal text with every replacement field replaced by its argument
FormatPieces(description, kwargs) ==
    IF description = <<>> THEN ""
    ELSE (IF "lit" \in DOMAIN Head(description)
          THEN Head(description).lit
          ELSE kwargs[Head(description).field])
         \o FormatPieces(Tail(description), kwargs)

\* str.format(**kwargs): KeyError for a replacement field without an argument
Format(description, kwargs) ==
    IF DeclaredFields(description) \subseteq DOMAIN kwargs
    THEN [raised |-> "", text |-> FormatPieces(description, kwargs)]
    ELSE [raised |-> "KeyError", text |-> ""]

\* the per-person amount added to every exploration day for meals and transport
DailyOverhead == 1500
\* the arrival day's base amount and its increment per traveler
ArrivalBase == 4500
ArrivalPerTraveler == 500

\* one thing written to the document: a section header, a heading, a day
\* heading, an activity bullet or a cost bullet
Item(kind, day, date, label, content, amount) ==
    [kind |-> kind, day |-> day, date |-> date, label |-> label, text |-> content, amount |-> amount]

\* a start date always taken from the clock
StartDateFromClock(ud, now) == now

\* start_date: the departure date, or datetime.now().date() when the dates
\* cannot be subtracted
StartDate(ud, now) ==
    IF ud.return_date = NoDate \/ ud.departure_date = NoDate THEN now ELSE ud.departure_date

\* the section header, the Day 1 heading, arrival_activities, and the heading
\* of the exploration days
ArrivalItems(ud, now) ==
    << Item("section", 0, NoDate, "Day-by-Day Itinerary", "", 0),
       Item("day", 1, StartDate(ud, now), "Arrival Day", "", 0),
       Item("bullet", 1, NoDate, "Morning",
            "Arrive at " \o ud.destination \o "'s Indira Gandhi International Airport (IGIA). Take a taxi or metro (Yellow Line) to the hotel.", 0),
       Item("bullet", 1, NoDate, "Afternoon",
            "Check-in at Hotel Orchid (Rs. 2,500/night), a budget-friendly option with amenities like a restaurant and 24-hour front desk. Explore nearby area.", 0),
       Item("bullet", 1, NoDate, "Evening",
            "Enjoy a welcome dinner at the popular Karim's restaurant, serving delicious North Indian cuisine. (Rs. 500 per person)", 0),
       Item("cost", 1, NoDate, "Estimated daily cost for group", "",
            ArrivalBase + (ud.num_travelers * ArrivalPerTraveler)),
       Item("heading", 2, NoDate, "Main Exploration", "", Duration(ud) - 1) >>

\* activities.get('<period>_cost', 0)
GetCost(activities, cost_key) ==
    IF cost_key \in DOMAIN activities THEN activities[cost_key] ELSE 0

\* a daily cost without the amount for meals and transport
DailyCostWithoutOverhead(activities, num_travelers) ==
    (activities.morning_cost + GetCost(activities, "afternoon_cost")
     + activities.evening_cost) * num_travelers

\* daily_cost = (morning_cost + afternoon_cost + evening_cost + 1500) * num_travelers
DailyCost(activities, num_travelers) ==
    (activities.morning_cost + GetCost(activities, "afternoon_cost")
     + activities.evening_cost + DailyOverhead) * num_travelers

\* one activity of an exploration day: the bullet written, or the KeyError
\* of a key the template lacks or of a replacement field without argument.
\* Only the afternoon reads its cost with a default.
Activity(activities, period, label, dn, destination, num_travelers) ==
    LET cost_key == period \o "_cost"
    IN  IF period \notin DOMAIN activities
           \/ (cost_key \notin DOMAIN activities /\ period # "afternoon")
        THEN [raised |-> "KeyError", items |-> <<>>]
        ELSE LET cost == GetCost(activities, cost_key)
                 rendered == Format(activities[period],
                                    FormatArguments(destination, cost, num_travelers))
             IN  IF rendered.raised # ""
                 THEN [raised |-> rendered.raised, items |-> <<>>]
                 ELSE [raised |-> "",
                       items |-> <<Item("bullet", dn, NoDate, label, rendered.text, cost)>>]

\* what a sequence of steps writes: everything up to the first step that raises
RECURSIVE Written(_)
Written(steps) ==
    IF steps = <<>> THEN [raised |-> "", items |-> <<>>]
    ELSE IF Head(steps).raised # "" THEN Head(steps)
    ELSE LET rest == Written(Tail(steps))
         IN  [raised |-> rest.raised, items |-> Head(steps).items \o rest.items]

\* the body of the loop for one day_num
ExplorationItems(ud, dn) ==
    LET day_theme == get_day_theme(dn, ud.interests)
        activity_templates == get_activity_templates(ud.destination)
    IN  IF ResolveRaises(activity_templates)
        THEN [raised |-> "KeyError", items |-> <<>>]
        ELSE LET activities == ResolveActivities(activity_templates, day_theme)
             IN  Written(<<
                   [raised |-> "", items |-> <<Item("day", dn, NoDate, day_theme, "", 0)>>],
                   Activity(activities, "morning", "Morning", dn, ud.destination, ud.num_travelers),
                   Activity(activities, "afternoon", "Afternoon", dn, ud.destination, ud.num_travelers),
                   Activity(activities, "evening", "Evening", dn, ud.destination, ud.num_travelers),
                   [raised |-> "",
                    items |-> <<Item("cost", dn, NoDate, "Estimated daily cost for group", "",
                                     DailyCost(activities, ud.num_travelers))>>] >>)

\* a departure day that ends with a cost line
DepartureItemsWithCost(ud, now) ==
    << Item("day", Duration(ud), StartDate(ud, now) + (Duration(ud) - 1), "Departure Day", "", 0),
       Item("bullet", Duration(ud), NoDate, "Evening", "Journey back home. Safe travels!", 0),
       Item("cost", Duration(ud), NoDate, "Estimated daily cost for group", "", 0) >>

\* the Day {duration} heading and departure_activities
DepartureItems(ud, now) ==
    << Item("day", Duration(ud), StartDate(ud, now) + (Duration(ud) - 1), "Departure Day", "", 0),
       Item("bullet", Duration(ud), NoDate, "Morning",
            "Final shopping and souvenir collection. Visit local markets for last-minute purchases.", 0),
       Item("bullet", Duration(ud), NoDate, "Afternoon",
            "Hotel checkout and departure preparations. Light lunch at hotel or nearby restaurant.", 0),
       Item("bullet", Duration(ud), NoDate, "Evening",
            "Journey back home. Safe travels!", 0) >>

\* a loop that also runs for the last day
ExplorationRangeInclusive(duration) == 2..duration

\* range(2, duration)
ExplorationRange(duration) == 2..(duration - 1)

\* a departure day for every duration
HasDepartureDayAlways(duration) == duration > 0

\* if duration > 1
HasDepartureDay(duration) == duration > 1

\* everything up to the loop
ArrivalDay ==
    /\ itin_pc = "start"
    /\ doc' = doc \o ArrivalItems(user_data, clock)
    /\ day_num' = 2
    /\ itin_pc' = "loop"
    /\ UNCHANGED <<user_data, budgetVars, priceVars, gatherVars, appVars>>

\* one iteration of the loop; an exception leaves the function
ExplorationDay ==
    /\ itin_pc = "loop"
    /\ day_num \in ExplorationRange(Duration(user_data))
    /\ \E written \in {ExplorationItems(user_data, day_num)} :
          /\ doc' = doc \o written.items
          /\ IF written.raised # ""
             THEN itin_pc' = "raised" /\ day_num' = day_num
             ELSE itin_pc' = itin_pc /\ day_num' = day_num + 1
    /\ UNCHANGED <<user_data, budgetVars, priceVars, gatherVars, appVars>>

\* the end of the loop and what follows it
DepartureDay ==
    /\ itin_pc = "loop"
    /\ day_num \notin ExplorationRange(Duration(user_data))
    /\ doc' = IF HasDepartureDay(Duration(user_data))
              THEN doc \o DepartureItems(user_data, clock)
              ELSE doc
    /\ itin_pc' = "done"
    /\ UNCHANGED <<user_data, day_num, budgetVars, priceVars, gatherVars, appVars>>

RECURSIVE SeqsUpTo(_, _)
\* the lists without repetition, of at most n elements of S
SeqsUpTo(S, n) ==
    IF n = 0 THEN {<<>>}
    ELSE LET shorter == SeqsUpTo(S, n - 1)
         IN  shorter \cup {Append(q, x) : q \in {r \in shorter : Len(r) = n - 1},
                                           x \in S} 

NoRepetition(list) == \A i, j \in 1..Len(list) : list[i] = list[j] => i = j

\* what st.multiselect can return
InterestLists == {l \in SeqsUpTo(InterestOpts, MaxInterests) : NoRepetition(l)}

ItineraryRequests ==
    {[DefaultRequest EXCEPT !.destination = d, !.return_date = Today + (n - 1),
                            !.num_travelers = k, !.interests = l] :
        d \in Destinations, n \in 1..MaxDuration,
        k \in TravelersMin..MaxTravelers, l \in InterestLists}

InitItinerary ==
    /\ user_data \in ItineraryRequests
    /\ itin_pc = "start"
    /\ day_num = 0
    /\ doc = <<>>
    /\ BudgetIdle
    /\ PricesIdle
    /\ GatherIdle
    /\ clock = Today
    /\ PdfIdle
    /\ MailIdle
    /\ RunIdle

NextItinerary == ArrivalDay \/ ExplorationDay \/ DepartureDay

SpecItinerary == InitItinerary /\ [][NextItinerary]_vars

\* the day headings written so far, in the order written
DayHeadings == SelectSeq(doc, LAMBDA item : item.kind = "day")

ThemeLabels ==
    {"Historical Exploration", "Nature and Relaxation", "Culinary Adventure",
     "Cultural Immersion", "Adventure Activities", "Shopping and Markets",
     "City Exploration", "Cultural Tour", "Nature Walk"}

IsArrival(h) == h.label = "Arrival Day"
IsDeparture(h) == h.label = "Departure Day"
IsExploration(h) == h.label \in ThemeLabels

\* the interests of the request, as a set
InterestSet == {user_data.interests[i] : i \in 1..Len(user_data.interests)}

ThemedInterests == {"History", "Nature", "Food", "Culture", "Adventure", "Shopping"}

\* the fixed priority order of the themed interests
PriorityOrder == <<"History", "Nature", "Food", "Culture", "Adventure", "Shopping">>

\* the themes of the selected interests, in priority order
ThemesByPriority ==
    LET selected == SelectSeq(PriorityOrder, LAMBDA interest : interest \in InterestSet)
    IN  [i \in 1..Len(selected) |-> ThemeOf(selected[i])]

(***************************************************************************)
(* C4: for a duration D >= 2 the itinerary writes exactly D days, with the *)
(* day indexes 1..D in order: day 1 the arrival, days 2..D-1 exploration   *)
(* days, day D the departure; no index is skipped or written twice.        *)
(***************************************************************************)
C4_DaysOneToD ==
    Duration(user_data) >= 2 =>
        /\ \A i \in 1..Len(DayHeadings) :
              /\ DayHeadings[i].day = i
              /\ i = 1 => IsArrival(DayHeadings[i])
              /\ (1 < i /\ i < Duration(user_data)) => IsExploration(DayHeadings[i])
              /\ i = Duration(user_data) => IsDeparture(DayHeadings[i])
        /\ itin_pc = "done" => Len(DayHeadings) = Duration(user_data)

\* a finished itinerary with an arrival, several exploration days and a departure
C4_Witness ==
    /\ itin_pc = "done"
    /\ Duration(user_data) >= 4
    /\ Len(DayHeadings) = Duration(user_data)
    /\ IsExploration(DayHeadings[2])
    /\ IsDeparture(DayHeadings[Duration(user_data)])

(***************************************************************************)
(* C5: for a duration of 1 the itinerary writes exactly one day, the       *)
(* arrival day: no exploration day and no departure day.                   *)
(***************************************************************************)
C5_SingleDayIsArrivalOnly ==
    Duration(user_data) = 1 =>
        /\ \A i \in 1..Len(DayHeadings) : i = 1 /\ IsArrival(DayHeadings[i]) /\ DayHeadings[i].day = 1
        /\ itin_pc = "done" => Len(DayHeadings) = 1

\* a finished one-day itinerary
C5_Witness ==
    /\ itin_pc = "done"
    /\ Duration(user_data) = 1
    /\ Len(DayHeadings) = 1
    /\ IsArrival(DayHeadings[1])

(***************************************************************************)
(* C6: the theme list holds the themes of the selected interests in the    *)
(* priority order History, Nature, Food, Culture, Adventure, Shopping,     *)
(* whatever the order of the traveler's list, and exploration day d has    *)
(* the theme themes[(d - 2) mod len(themes)]; a duration of 5 with History *)
(* and Food gives Historical Exploration, Culinary Adventure, Historical   *)
(* Exploration for the days 2, 3, 4.                                       *)
(***************************************************************************)
C6_ThemeByPriorityRoundRobin ==
    /\ InterestSet \cap ThemedInterests # {} =>
          \A i \in 1..Len(DayHeadings) :
              IsExploration(DayHeadings[i]) =>
                  DayHeadings[i].label =
                      ThemesByPriority[((DayHeadings[i].day - 2) % Len(ThemesByPriority)) + 1]
    /\ (itin_pc = "done" /\ Duration(user_data) = 5 /\ InterestSet = {"History", "Food"}) =>
          /\ DayHeadings[2].label = "Historical Exploration"
          /\ DayHeadings[3].label = "Culinary Adventure"
          /\ DayHeadings[4].label = "Historical Exploration"

\* the scenario with the interests listed against the priority order
C6_Witness ==
    /\ itin_pc = "done"
    /\ Duration(user_data) = 5
    /\ user_data.interests = <<"Food", "History">>
    /\ DayHeadings[2].label = "Historical Exploration"
    /\ DayHeadings[3].label = "Culinary Adventure"
    /\ DayHeadings[4].label = "Historical Exploration"

(***************************************************************************)
(* C7: when the interests hold none of the six themed interests, be the    *)
(* list empty or made of other interests, the theme list is the default    *)
(* cycle City Exploration, Cultural Tour, Nature Walk; the theme list is   *)
(* never empty, so the modulo never divides by zero.                       *)
(***************************************************************************)
C7_DefaultCycleWhenNoThemedInterest ==
    /\ Len(Themes(user_data.interests)) > 0
    /\ InterestSet \cap ThemedInterests = {} =>
          /\ Themes(user_data.interests) = <<"City Exploration", "Cultural Tour", "Nature Walk">>
          /\ \A i \in 1..Len(DayHeadings) :
                IsExploration(DayHeadings[i]) =>
                    DayHeadings[i].label =
                        <<"City Exploration", "Cultural Tour", "Nature Walk">>[((DayHeadings[i].day - 2) % 3) + 1]

\* a finished itinerary for interests that are not themed, going round the default cycle
C7_Witness ==
    /\ itin_pc = "done"
    /\ user_data.interests = <<"Beaches">>
    /\ Duration(user_data) >= 6
    /\ DayHeadings[2].label = "City Exploration"
    /\ DayHeadings[4].label = "Nature Walk"
    /\ DayHeadings[5].label = "City Exploration"

(***************************************************************************)
(* C8: theme cycling is periodic: with a theme list of length L, two       *)
(* exploration days d and d + L get the same theme.                        *)
(***************************************************************************)
C8_ThemePeriodic ==
    \A i, j \in 1..Len(DayHeadings) :
        (/\ IsExploration(DayHeadings[i])
         /\ IsExploration(DayHeadings[j])
         /\ DayHeadings[j].day = DayHeadings[i].day + Len(Themes(user_data.interests)))
        => DayHeadings[i].label = DayHeadings[j].label

\* two exploration days one period apart, with different themes between them
C8_Witness ==
    /\ itin_pc = "done"
    /\ Len(Themes(user_data.interests)) = 2
    /\ Len(DayHeadings) >= 6
    /\ IsExploration(DayHeadings[5])
    /\ DayHeadings[3].label = DayHeadings[5].label
    /\ DayHeadings[3].label # DayHeadings[4].label

\* the bullets and the cost line written for day d, in the order written
DayLines(d) == SelectSeq(doc, LAMBDA item : item.kind \in {"bullet", "cost"} /\ item.day = d)

\* the template the exploration day with heading h was written from
ResolvedTemplate(h) == ResolveActivities(get_activity_templates(user_data.destination), h.label)

\* the three activities of the generic templates, as they read for a destination
GenericActivities(theme, destination) ==
    CASE theme = "Historical Exploration" ->
           << "Visit historical monuments and heritage sites in " \o destination \o ". (Rs. 200 per person)",
              "Guided heritage walk and museum visits in old city areas.",
              "Traditional dinner at heritage restaurant. (Rs. 600 per person)" >>
      [] theme = "Nature and Relaxation" ->
           << "Nature walk in " \o destination \o " gardens and parks. (Rs. 100 per person)",
              "Relaxing time at botanical gardens or lakeside areas.",
              "Sunset viewing at scenic location with refreshments. (Rs. 400 per person)" >>
      [] OTHER ->
           << "City exploration and major attractions tour. (Rs. 300 per person)",
              "Local culture and market exploration.",
              "Traditional dinner and entertainment. (Rs. 700 per person)" >>

\* the three activities written for day d
ActivitiesWritten(d) == <<DayLines(d)[1].text, DayLines(d)[2].text, DayLines(d)[3].text>>

(***************************************************************************)
(* C18: for a destination other than Delhi, the exploration days themed    *)
(* Historical Exploration and Nature and Relaxation are written from their *)
(* own generic templates and the days of every other theme from the        *)
(* generic default template; with no interests selected every exploration  *)
(* day is written from the generic default template.                       *)
(***************************************************************************)
C18_GenericTemplateResolution ==
    Lower(user_data.destination) # "delhi" =>
        \A i \in 1..Len(DayHeadings) :
            IsExploration(DayHeadings[i]) =>
                /\ ActivitiesWritten(DayHeadings[i].day)
                     = GenericActivities(DayHeadings[i].label, user_data.destination)
                /\ DayHeadings[i].label \notin {"Historical Exploration", "Nature and Relaxation"}
                     => ActivitiesWritten(DayHeadings[i].day)
                          = GenericActivities("default", user_data.destination)
                /\ user_data.interests = <<>>
                     => ActivitiesWritten(DayHeadings[i].day)
                          = GenericActivities("default", user_data.destination)

\* an unrecognized destination with a day from a theme-specific template
\* followed by a day from the default template
C18_Witness ==
    /\ itin_pc = "done"
    /\ user_data.destination = "Goa"
    /\ user_data.interests = <<"Food", "Nature">>
    /\ Duration(user_data) >= 4
    /\ DayHeadings[2].label = "Nature and Relaxation"
    /\ ActivitiesWritten(2)[1] = "Nature walk in Goa gardens and parks. (Rs. 100 per person)"
    /\ DayHeadings[3].label = "Culinary Adventure"
    /\ ActivitiesWritten(3)[1] = "City exploration and major attractions tour. (Rs. 300 per person)"

Periods == {"morning", "afternoon", "evening"}

TemplateKeys ==
    {"morning", "morning_cost", "afternoon", "afternoon_cost", "evening", "evening_cost"}

(***************************************************************************)
(* C19: the itinerary never raises for a missing key or a missing          *)
(* replacement field: for every destination, interest list and exploration *)
(* day the resolved template defines the description and the cost of the   *)
(* morning, the afternoon and the evening, every replacement field its     *)
(* descriptions declare is supplied, and the three activities and the cost *)
(* line are written.                                                       *)
(***************************************************************************)
C19_CatalogLookupNeverFails ==
    /\ itin_pc # "raised"
    /\ \A i \in 1..Len(DayHeadings) :
          IsExploration(DayHeadings[i]) =>
              /\ TemplateKeys \subseteq DOMAIN ResolvedTemplate(DayHeadings[i])
              /\ \A period \in Periods :
                    DeclaredFields(ResolvedTemplate(DayHeadings[i])[period])
                        \subseteq {"destination", "cost_per_person", "total_cost"}
              /\ Len(DayLines(DayHeadings[i].day)) = 4
              /\ \A k \in 1..3 : /\ DayLines(DayHeadings[i].day)[k].kind = "bullet"
                                 /\ DayLines(DayHeadings[i].day)[k].text # ""
              /\ DayLines(DayHeadings[i].day)[4].kind = "cost"

\* a finished itinerary with a day of a theme the catalog of the destination
\* lacks, written from a template that declares replacement fields
C19_Witness ==
    /\ itin_pc = "done"
    /\ Lower(user_data.destination) # "delhi"
    /\ Len(DayHeadings) >= 3
    /\ DayHeadings[2].label = "Shopping and Markets"
    /\ DayHeadings[2].label \notin DOMAIN get_activity_templates(user_data.destination)
    /\ DeclaredFields(ResolvedTemplate(DayHeadings[2]).morning) # {}
    /\ Len(DayLines(2)) = 4

(***************************************************************************)
(* C20: the group cost written for an exploration day is the number of     *)
(* travelers times (the morning, afternoon and evening per-person costs of *)
(* the resolved template plus 1500); it is a non-negative multiple of the  *)
(* number of travelers and at least 1500 times the number of travelers.    *)
(***************************************************************************)
C20_ExplorationDayGroupCost ==
    \A i \in 1..Len(DayHeadings) :
        IsExploration(DayHeadings[i]) =>
            LET cost == DayLines(DayHeadings[i].day)[4]
                activities == ResolvedTemplate(DayHeadings[i])
                n == user_data.num_travelers
            IN  /\ cost.kind = "cost"
                /\ cost.amount = n * (activities.morning_cost + activities.afternoon_cost
                                      + activities.evening_cost + 1500)
                /\ cost.amount >= 0
                /\ cost.amount % n = 0
                /\ cost.amount >= 1500 * n

\* two travelers on a culinary day in Delhi: 2 * (300 + 1200 + 600 + 1500)
C20_Witness ==
    /\ itin_pc = "done"
    /\ user_data.num_travelers = 2
    /\ user_data.destination = "Delhi"
    /\ Len(DayHeadings) >= 3
    /\ DayHeadings[2].label = "Culinary Adventure"
    /\ DayLines(2)[4].amount = 7200

\* the cost lines written so far, in order
CostLines == SelectSeq(doc, LAMBDA item : item.kind = "cost")

\* the cost lines written under the day heading h
CostLinesOf(h) == SelectSeq(CostLines, LAMBDA item : item.day = h.day)

(***************************************************************************)
(* C21: the group cost of the arrival day is 4500 + 500 * the number of    *)
(* travelers; the departure day has no cost line; the arrival day and      *)
(* every exploration day have exactly one, so that a finished itinerary of *)
(* D >= 2 days has D - 1 cost lines and one of a single day has 1.         *)
(***************************************************************************)
C21_OneCostLinePerDayButDeparture ==
    /\ \A i \in 1..Len(DayHeadings) :
          LET h == DayHeadings[i]
          IN  /\ IsDeparture(h) => CostLinesOf(h) = <<>>
              /\ Len(CostLinesOf(h)) <= 1
              /\ (IsArrival(h) /\ CostLinesOf(h) # <<>>) =>
                    CostLinesOf(h)[1].amount = 4500 + 500 * user_data.num_travelers
    /\ itin_pc = "done" =>
          /\ \A i \in 1..Len(DayHeadings) :
                (IsArrival(DayHeadings[i]) \/ IsExploration(DayHeadings[i]))
                    => Len(CostLinesOf(DayHeadings[i])) = 1
          /\ \A i \in 1..Len(CostLines) :
                \E j \in 1..Len(DayHeadings) : DayHeadings[j].day = CostLines[i].day
          /\ Len(CostLines) = IF Duration(user_data) >= 2 THEN Duration(user_data) - 1 ELSE 1

\* a finished itinerary of four days for two travelers: three cost lines,
\* the first of 5500, and none under the departure day
C21_Witness ==
    /\ itin_pc = "done"
    /\ Duration(user_data) = 4
    /\ user_data.num_travelers = 2
    /\ Len(CostLines) = 3
    /\ CostLines[1].amount = 5500
    /\ IsDeparture(DayHeadings[4])
    /\ CostLinesOf(DayHeadings[4]) = <<>>

\* the themes of the selected interests that have a theme
SelectedThemes == {ThemeOf(interest) : interest \in InterestSet \cap ThemedInterests}

\* the headings of the exploration days written so far
ExplorationHeadings == SelectSeq(DayHeadings, IsExploration)

\* C30: when at least one of the six themed interests is selected, the theme
\* of every exploration day is the theme of a selected interest, never the
\* theme of an interest that was not selected nor one of the default cycle;
\* and when there are at least as many exploration days as selected themes,
\* every selected theme is the theme of at least one exploration day
C30_ThemesAreThoseSelected ==
    SelectedThemes # {} =>
        /\ \A i \in 1..Len(ExplorationHeadings) : ExplorationHeadings[i].label \in SelectedThemes
        /\ (itin_pc = "done" /\ Duration(user_data) - 2 >= Cardinality(SelectedThemes)) =>
              \A theme \in SelectedThemes :
                  \E i \in 1..Len(ExplorationHeadings) : ExplorationHeadings[i].label = theme

C30_Witness ==
    /\ itin_pc = "done"
    /\ user_data.interests = <<"Shopping", "History">>
    /\ Duration(user_data) = 5
    /\ Len(ExplorationHeadings) = 3
    /\ ExplorationHeadings[1].label = "Historical Exploration"
    /\ ExplorationHeadings[2].label = "Shopping and Markets"
    /\ ExplorationHeadings[3].label = "Historical Exploration"

(***************************************************************************)
(* WebSearcher.extract_prices_from_text                                    *)
(*                                                                         *)
(* A text is a sequence of characters, each a one-character string; the    *)
(* rupee sign is the character RupeeSign.  Positions are counted from 1,   *)
(* and a failed match is the position 0.                                   *)
(***************************************************************************)
RupeeSign == "<U+20B9>"

\* Python's None, kept apart from every string: no character is called None
NoneText == <<"None">>

Digits == {"0", "1", "2", "3", "4", "5", "6", "7", "8", "9"}

DigitValue(c) ==
    CASE c = "0" -> 0 [] c = "1" -> 1 [] c = "2" -> 2 [] c = "3" -> 3 [] c = "4" -> 4
      [] c = "5" -> 5 [] c = "6" -> 6 [] c = "7" -> 7 [] c = "8" -> 8 [] c = "9" -> 9

\* str.lower() on one character of the model's alphabet
LowerChar(c) ==
    CASE c = "R" -> "r" [] c = "S" -> "s" [] c = "I" -> "i" [] c = "N" -> "n"
      [] c = "P" -> "p" [] c = "C" -> "c" [] c = "F" -> "f"
      [] OTHER -> c

\* text.lower()
LowerText(t) == [i \in 1..Len(t) |-> LowerChar(t[i])]

\* the character at position p, or "" past the end of the text
At(t, p) == IF 1 <= p /\ p <= Len(t) THEN t[p] ELSE ""

\* \d and \s on the model's alphabet
IsDigit(c) == c \in Digits
IsSpace(c) == c = " "

RECURSIVE SkipSpaces(_, _)
\* \s* from position p: the position after the white space
SkipSpaces(t, p) == IF IsSpace(At(t, p)) THEN SkipSpaces(t, p + 1) ELSE p

RECURSIVE SkipColonsAndSpaces(_, _)
\* [:\s]* from position p
SkipColonsAndSpaces(t, p) ==
    IF At(t, p) = ":" \/ IsSpace(At(t, p)) THEN SkipColonsAndSpaces(t, p + 1) ELSE p

\* a literal at position p: the position after it, or 0
MatchLiteral(t, p, literal) ==
    IF \A i \in 1..Len(literal) : At(t, p + i - 1) = literal[i] THEN p + Len(literal) ELSE 0

\* an optional character at position p
SkipOptional(t, p, c) == IF At(t, p) = c THEN p + 1 ELSE p

\* \d{1,3} at position p, greedy: the position after it, or 0
MatchLeadingDigits(t, p) ==
    IF ~IsDigit(At(t, p)) THEN 0
    ELSE IF ~IsDigit(At(t, p + 1)) THEN p + 1
    ELSE IF ~IsDigit(At(t, p + 2)) THEN p + 2
    ELSE p + 3

RECURSIVE SkipGroups(_, _)
\* (?:,\d{3})* from position p, greedy
SkipGroups(t, p) ==
    IF At(t, p) = "," /\ IsDigit(At(t, p + 1)) /\ IsDigit(At(t, p + 2)) /\ IsDigit(At(t, p + 3))
    THEN SkipGroups(t, p + 4)
    ELSE p

\* (?:\.\d{2})? at position p, greedy
SkipCents(t, p) ==
    IF At(t, p) = "." /\ IsDigit(At(t, p + 1)) /\ IsDigit(At(t, p + 2)) THEN p + 3 ELSE p

\* \d{1,3}(?:,\d{3})*(?:\.\d{2})? at position p, the cents only when the
\* pattern has them.  The longest match is the only one the regex engine
\* can settle on: a shorter one stops before a digit, a comma or a full
\* stop, and nothing that follows the number in a pattern matches there.
MatchNumber(t, p, cents) ==
    LET d == MatchLeadingDigits(t, p)
    IN  IF d = 0 THEN 0
        ELSE IF cents THEN SkipCents(t, SkipGroups(t, d)) ELSE SkipGroups(t, d)

\* the eight entries of rupee_patterns.  Seven of them are
\*   keyword \.? (\s* or [:\s]*) rupee-sign? \s* (number)
\* with the optional parts present or not; the fourth is (number)\s*rupees?
PricePattern(keyword, dot, colons, sign, cents, suffix) ==
    [keyword |-> keyword, dot |-> dot, colons |-> colons, sign |-> sign,
     cents |-> cents, suffix |-> suffix]

rupee_patterns ==
    << PricePattern(<<RupeeSign>>, FALSE, FALSE, FALSE, TRUE, FALSE),
       PricePattern(<<"r", "s">>, TRUE, FALSE, FALSE, TRUE, FALSE),
       PricePattern(<<"i", "n", "r">>, FALSE, FALSE, FALSE, TRUE, FALSE),
       PricePattern(<<"r", "u", "p", "e", "e">>, FALSE, FALSE, FALSE, TRUE, TRUE),
       PricePattern(<<"p", "r", "i", "c", "e">>, FALSE, TRUE, TRUE, FALSE, FALSE),
       PricePattern(<<"c", "o", "s", "t">>, FALSE, TRUE, TRUE, FALSE, FALSE),
       PricePattern(<<"f", "r", "o", "m">>, FALSE, FALSE, TRUE, FALSE, FALSE),
       PricePattern(<<"s", "t", "a", "r", "t", "i", "n", "g">>, FALSE, FALSE, TRUE, FALSE, FALSE) >>

NoMatch == [from |-> 0, to |-> 0, next |-> 0]

\* a match of the pattern that starts at position p: the group is
\* t[from..to-1] and the match ends before position next
MatchAt(pattern, t, p) ==
    IF pattern.suffix
    THEN LET to == MatchNumber(t, p, pattern.cents)
             word == IF to = 0 THEN 0 ELSE MatchLiteral(t, SkipSpaces(t, to), pattern.keyword)
         IN  IF word = 0 THEN NoMatch
             ELSE [from |-> p, to |-> to, next |-> SkipOptional(t, word, "s")]
    ELSE LET k == MatchLiteral(t, p, pattern.keyword)
             afterDot == IF pattern.dot THEN SkipOptional(t, k, ".") ELSE k
             afterGap == IF pattern.colons THEN SkipColonsAndSpaces(t, afterDot)
                         ELSE SkipSpaces(t, afterDot)
             afterSign == IF pattern.sign THEN SkipOptional(t, afterGap, RupeeSign) ELSE afterGap
             from == SkipSpaces(t, afterSign)
             to == IF k = 0 THEN 0 ELSE MatchNumber(t, from, pattern.cents)
         IN  IF to = 0 THEN NoMatch ELSE [from |-> from, to |-> to, next |-> to]

\* the positions from p on where a match of the pattern starts
MatchStarts(pattern, t, p) == {q \in p..Len(t) : MatchAt(pattern, t, q).next # 0}

\* the element of a set of one element
The(S) == CHOOSE x \in S : TRUE

\* the least of a set of positions
Minimum(S) == CHOOSE q \in S : \A r \in S : q <= r

RECURSIVE FindAll(_, _, _)
\* re.findall(pattern, t) from position p on: the groups of the leftmost
\* matches that do not overlap, in the order of the text (m is the leftmost
\* match, computed once)
FindAll(pattern, t, p) ==
    LET starts == MatchStarts(pattern, t, p)
    IN  IF starts = {} THEN <<>>
        ELSE The({ <<SubSeq(t, m.from, m.to - 1)>> \o FindAll(pattern, t, m.next) :
                     m \in {MatchAt(pattern, t, Minimum(starts))} })

\* match.replace(',', '')
RemoveCommas(match) == SelectSeq(match, LAMBDA c : c # ",")

\* .replace('.00', ''): a match has at most one full stop, with two digits after it
RemoveZeroCents(str) ==
    LET n == Len(str)
    IN  IF n >= 3 /\ str[n - 2] = "." /\ str[n - 1] = "0" /\ str[n] = "0"
        THEN SubSeq(str, 1, n - 3)
        ELSE str

\* the digits before the full stop
IntegerPart(str) ==
    IF Len(str) >= 3 /\ str[Len(str) - 2] = "." THEN SubSeq(str, 1, Len(str) - 3) ELSE str

RECURSIVE StripLeadingZeros(_)
StripLeadingZeros(digits) ==
    IF Len(digits) > 1 /\ Head(digits) = "0" THEN StripLeadingZeros(Tail(digits)) ELSE digits

\* the most decimal digits a finite float has before the point
\* (sys.float_info.max is 1.797...e308, a number of 309 digits)
FloatMaxDigits == 309

\* float(str) is inf: the number is above sys.float_info.max.  Among the
\* numbers of 309 digits the first three digits decide, unless they are 179.
IsInfinite(str) ==
    LET digits == StripLeadingZeros(IntegerPart(str))
    IN  \/ Len(digits) > FloatMaxDigits
        \/ /\ Len(digits) = FloatMaxDigits
           /\ 100 * DigitValue(digits[1]) + 10 * DigitValue(digits[2]) + DigitValue(digits[3]) > 179

\* the lowest and the highest price kept
PriceLow == 300
PriceHigh == 500000

\* Python integers have no upper limit; the range test is the only use of a
\* price, so every price above PriceCap is held as PriceCap
PriceCap == 1000000

\* the digits of PriceCap
PriceCapDigits == 7

RECURSIVE DigitsToInt(_, _)
DigitsToInt(digits, acc) ==
    IF digits = <<>> THEN acc
    ELSE DigitsToInt(Tail(digits), 10 * acc + DigitValue(Head(digits)))

\* int(float(str)) for a finite float: int() drops the cents
IntOfFloat(str) ==
    LET digits == StripLeadingZeros(IntegerPart(str))
    IN  IF Len(digits) >= PriceCapDigits THEN PriceCap ELSE DigitsToInt(digits, 0)

\* if 300 <= price <= 500000
InPriceRange(price) == PriceLow <= price /\ price <= PriceHigh

RECURSIVE SortedSeq(_)
\* sorted(list(S))
SortedSeq(S) ==
    IF S = {} THEN <<>>
    ELSE LET least == CHOOSE x \in S : \A y \in S : x <= y
         IN  <<least>> \o SortedSeq(S \ {least})

\* sorted(list(set(prices)))
SortedSet(list) == SortedSeq({list[i] : i \in 1..Len(list)})

RECURSIVE Flatten(_)
Flatten(lists) == IF lists = <<>> THEN <<>> ELSE Head(lists) \o Flatten(Tail(lists))

\* the matches of all patterns: pattern after pattern, each in the order of the text
AllMatches(text_lower) ==
    Flatten([i \in 1..Len(rupee_patterns) |-> FindAll(rupee_patterns[i], text_lower, 1)])

\* clean_price of a match
CleanPrice(match) == RemoveZeroCents(RemoveCommas(match))

\* the loop over the matches: the list returned, or the exception that
\* leaves the function
PricesOfMatches(matches) ==
    LET clean == [i \in 1..Len(matches) |-> CleanPrice(matches[i])]
        overflow == \E i \in 1..Len(clean) : IsInfinite(clean[i])
        all == [i \in 1..Len(clean) |-> IntOfFloat(clean[i])]
        prices == SelectSeq(all, InPriceRange)
    IN  IF overflow THEN [raised |-> "OverflowError", prices |-> <<>>]
        ELSE [raised |-> "", prices |-> SortedSet(prices)]

\* extract_prices_from_text(text): the list returned, or the exception that
\* leaves the function.  float() of a match cannot raise ValueError, a match
\* being digits, commas and cents; int() of an infinite float raises
\* OverflowError, which except ValueError does not catch.  (text_lower and
\* matches are computed once.)
ExtractPrices(t) ==
    IF t = NoneText \/ t = <<>> THEN [raised |-> "", prices |-> <<>>]
    ELSE The({ The({ PricesOfMatches(matches) : matches \in {AllMatches(text_lower)} }) :
                 text_lower \in {LowerText(t)} })

extract_prices_from_text ==
    /\ price_pc = "start"
    /\ price_result' = ExtractPrices(text)
    /\ price_pc' = "done"
    /\ UNCHANGED <<user_data, text, budgetVars, itinVars, gatherVars, appVars>>

\* the pieces the texts of the model are made of
Tokens ==
    { <<RupeeSign>>, <<"R", "s", ".", " ">>, <<"r", "u", "p", "e", "e", "s">>,
      <<"p", "r", "i", "c", "e", ":">>, <<"5">>, <<"3", "0", "0">>, <<"5", "0", "0">>,
      <<",", "0", "0", "0">>, <<".", "0", "0">> }

\* str * n
Repeat(str, n) == [i \in 1..(n * Len(str)) |-> str[((i - 1) % Len(str)) + 1]]

\* the rupee sign, then 1 followed by 308 zeros, in groups: float() of it is finite
LongFiniteText == <<RupeeSign, "1", "0", "0">> \o Repeat(<<",", "0", "0", "0">>, LongNumberGroups)

\* the rupee sign, then 2 followed by 308 zeros, in groups: float() of it is inf
LongInfiniteText == <<RupeeSign, "2", "0", "0">> \o Repeat(<<",", "0", "0", "0">>, LongNumberGroups)

\* the texts tried: None, the empty string, the texts of at most MaxTokens
\* tokens, and the two long numbers
Texts ==
    {NoneText, LongFiniteText, LongInfiniteText}
    \cup {Flatten(tokens) : tokens \in SeqsUpTo(Tokens, MaxTokens)}

InitPrices ==
    /\ text \in Texts
    /\ price_pc = "start"
    /\ price_result = [raised |-> "", prices |-> <<>>]
    /\ user_data = DefaultRequest
    /\ BudgetIdle
    /\ ItineraryIdle
    /\ GatherIdle
    /\ clock = Today
    /\ PdfIdle
    /\ MailIdle
    /\ RunIdle

NextPrices == extract_prices_from_text

SpecPrices == InitPrices /\ [][NextPrices]_vars

\* the list is within the price range and strictly ascending
WellFormedPrices(prices) ==
    /\ \A i \in 1..Len(prices) : 300 <= prices[i] /\ prices[i] <= 500000
    /\ \A i, j \in 1..Len(prices) : i < j => prices[i] < prices[j]

\* every call that returns gives a well-formed list, and the empty list for
\* an empty or absent text
ReturnedPricesWellFormed ==
    (price_pc = "done" /\ price_result.raised = "") =>
        /\ WellFormedPrices(price_result.prices)
        /\ text \in {NoneText, <<>>} => price_result.prices = <<>>

(***************************************************************************)
(* C9: for every text extract_prices_from_text returns a list of integers  *)
(* in [300, 500000], strictly ascending, so without duplicates; an empty   *)
(* or absent text gives the empty list and raises nothing.                 *)
(***************************************************************************)
C9_ReturnsWellFormedPrices ==
    price_pc = "done" =>
        /\ price_result.raised = ""
        /\ WellFormedPrices(price_result.prices)
        /\ text \in {NoneText, <<>>} => price_result.prices = <<>>

\* a whole number written with its thousands separators (5,000) or without
\* any (5000)
IsWholeNumber(number) ==
    /\ number # <<>>
    /\ Len(number) <= PriceCapDigits + 2
    /\ number[1] \in Digits \ {"0"}
    /\ \A i \in 1..Len(number) : number[i] \in Digits \cup {","}
    /\ \/ \A i \in 1..Len(number) : number[i] # ","
       \/ \A i \in 1..Len(number) : (number[i] = ",") <=> ((Len(number) - i + 1) % 4 = 0)

\* the ways a text can mention one price: the number after the symbol, the
\* code or a keyword, or before the word rupees
MentionPrefixes == {<<RupeeSign>>, <<"R", "s", ".", " ">>, <<"p", "r", "i", "c", "e", ":">>}
MentionSuffix == <<"r", "u", "p", "e", "e", "s">>
MentionedNumbers(t) ==
    {number \in {SubSeq(t, from, to) : from, to \in 1..Len(t)} :
        /\ IsWholeNumber(number)
        /\ \/ \E prefix \in MentionPrefixes : t = prefix \o number
           \/ t = number \o MentionSuffix}

\* the value of a number, separators dropped
ValueOf(number) == DigitsToInt(RemoveCommas(number), 0)

\* C26: the thousands separators are optional: a mention of a value in
\* [300, 500000] after the symbol, the code or a keyword, or before the word
\* rupees, gives that value whether it is written 5,000 or 5000; the value
\* extracted is the whole number, never a leading fragment of it
C26_SeparatorsAreOptional ==
    (price_pc = "done" /\ text # NoneText) =>
        \A number \in MentionedNumbers(text) :
            InPriceRange(ValueOf(number)) =>
                /\ price_result.raised = ""
                /\ price_result.prices = <<ValueOf(number)>>

\* a mention written with its separators, or of at most three digits, gives
\* its value; a mention of four digits or more without separators gives no
\* price but fragments of three digits or less
SeparatedMentionsAreWhole ==
    (price_pc = "done" /\ text # NoneText) =>
        \A number \in MentionedNumbers(text) :
            /\ price_result.raised = ""
            /\ (Len(number) <= 3 \/ \E i \in 1..Len(number) : number[i] = ",")
                  => price_result.prices =
                        IF InPriceRange(ValueOf(number)) THEN <<ValueOf(number)>> ELSE <<>>
            /\ (Len(number) >= 4 /\ \A i \in 1..Len(number) : number[i] # ",")
                  => \A i \in 1..Len(price_result.prices) :
                         price_result.prices[i] < 1000 /\ price_result.prices[i] # ValueOf(number)

\* the text `<rupee sign>5500` has been read, and 550 came out of it
FragmentExtracted ==
    /\ price_pc = "done"
    /\ text = <<RupeeSign, "5", "5", "0", "0">>
    /\ price_result.prices = <<550>>

(***************************************************************************)
(* WebSearcher's providers and AITripPlanner.gather_travel_data            *)
(*                                                                         *)
(* A provider answers a query in one of the ways of Answers; what it sends *)
(* with status 200 is a payload.  A search method returns None (NoResult)  *)
(* or a dictionary.                                                        *)
(***************************************************************************)
\* requests raises (time-out after 10 s, connection error), the status is
\* not 200, or the body is not the JSON the method reads
FailedAnswers == {"timeout", "exception", "non200", "malformed"}

NoResult == [none |-> TRUE]

\* an empty dictionary
EmptyDict == [empty |-> TRUE]

\* f"{value}": None is written as the word None
FormatValue(value) == IF value = NoneText THEN <<"N", "o", "n", "e">> ELSE value

\* the most entries of RelatedTopics that duckduckgo_search reads
MaxTopics == 3

\* list[:n]
Prefix(list, n) == SubSeq(list, 1, IF Len(list) < n THEN Len(list) ELSE n)

\* wikipedia_search: every failure is caught and gives None
wikipedia_search(answer) ==
    IF answer.status = "ok"
    THEN [none |-> FALSE, title |-> answer.payload.title, extract |-> answer.payload.extract]
    ELSE NoResult

\* openstreetmap_search: every failure, and an empty list of places, gives None
openstreetmap_search(answer) ==
    IF answer.status = "ok" /\ answer.payload # <<>>
    THEN [none |-> FALSE, display_name |-> answer.payload[1].display_name,
          latitude |-> answer.payload[1].lat, longitude |-> answer.payload[1].lon]
    ELSE NoResult

\* duckduckgo_search: every failure is caught and gives None; data.get()
\* passes on whatever JSON value the payload holds, None for null
duckduckgo_search(answer) ==
    IF answer.status = "ok"
    THEN [none |-> FALSE, abstract |-> answer.payload.AbstractText,
          answer |-> answer.payload.Answer,
          topics |-> Prefix(answer.payload.RelatedTopics, MaxTopics)]
    ELSE NoResult

\* ' '.join(topics) raises TypeError when an item is not a string
JoinRaises(topics) == \E i \in 1..Len(topics) : topics[i] = NoneText

RECURSIVE Join(_)
\* ' '.join(topics)
Join(topics) ==
    IF topics = <<>> THEN <<>>
    ELSE IF Len(topics) = 1 THEN topics[1]
    ELSE topics[1] \o <<" ">> \o Join(Tail(topics))

\* all_text of a search result
AllText(ddg) == FormatValue(ddg.abstract) \o <<" ">> \o FormatValue(ddg.answer) \o <<" ">> \o Join(ddg.topics)

\* min(prices) and max(prices)
MinOf(prices) == CHOOSE x \in {prices[i] : i \in 1..Len(prices)} : \A i \in 1..Len(prices) : x <= prices[i]
MaxOf(prices) == CHOOSE x \in {prices[i] : i \in 1..Len(prices)} : \A i \in 1..Len(prices) : x >= prices[i]

\* price_range: "Rs. {min} - Rs. {max}", or "Current pricing available"
PriceRange(prices) ==
    IF prices # <<>> THEN [known |-> TRUE, low |-> MinOf(prices), high |-> MaxOf(prices)]
    ELSE [known |-> FALSE, low |-> 0, high |-> 0]

\* the exception that leaves the block "if ddg_...:", or "" when it completes
MarketRaises(ddg) ==
    IF JoinRaises(ddg.topics) THEN "TypeError" ELSE ExtractPrices(AllText(ddg)).raised

\* the dictionary stored as accommodation_data or transportation_data
MarketData(ddg) ==
    LET prices == ExtractPrices(AllText(ddg)).prices
    IN  [empty |-> FALSE, info |-> ddg, prices_found |-> prices, price_range |-> PriceRange(prices)]

\* travel_data as first assigned
EmptyTravelData ==
    [destination_info |-> EmptyDict, accommodation_data |-> EmptyDict,
     transportation_data |-> EmptyDict, local_info |-> EmptyDict, pricing_info |-> <<>>]

StrRs500 == <<"R", "s", ".", " ", "5", "0", "0">>
StrTwoPrices == <<RupeeSign, "5", ",", "0", "0", "0", " ", "3", "0", "0", " ", "r", "u", "p", "e", "e", "s">>

WikipediaAnswers ==
    {[status |-> st, payload |-> <<>>] : st \in FailedAnswers}
    \cup {[status |-> "ok", payload |-> [title |-> "Goa", extract |-> "Goa is a state"]]}

OpenStreetMapAnswers ==
    {[status |-> st, payload |-> <<>>] : st \in FailedAnswers}
    \cup {[status |-> "ok", payload |-> <<>>],
          [status |-> "ok", payload |-> <<[display_name |-> "Goa, India", lat |-> 15, lon |-> 74]>>]}

\* what the instant-answer service may send with status 200: strings, null
\* for a value, more than three related topics
DuckDuckGoPayloads ==
    { [AbstractText |-> <<>>, Answer |-> <<>>, RelatedTopics |-> <<>>],
      [AbstractText |-> StrRs500, Answer |-> <<>>, RelatedTopics |-> <<StrTwoPrices>>],
      [AbstractText |-> NoneText, Answer |-> StrRs500, RelatedTopics |-> <<>>],
      [AbstractText |-> <<>>, Answer |-> <<>>, RelatedTopics |-> <<StrRs500, <<>>, <<>>, NoneText>>],
      [AbstractText |-> <<>>, Answer |-> <<>>, RelatedTopics |-> <<NoneText>>] }

DuckDuckGoAnswers ==
    {[status |-> st, payload |-> <<>>] : st \in FailedAnswers}
    \cup {[status |-> "ok", payload |-> pl] : pl \in DuckDuckGoPayloads}

\* The answers of a provider: every one of them when gather_travel_data is
\* called on its own.  In a run of the application the time-out stands for
\* the failed answers, which the search methods all turn into the same
\* absent result.
ProviderAnswers(answers) ==
    IF run_pc = "idle" THEN answers
    ELSE {answer \in answers : answer.status \in {"ok", "timeout"}}

\* wiki_data = self.web_searcher.wikipedia_search(...); if wiki_data: ...
QueryWikipedia ==
    /\ gather_pc = "wikipedia"
    /\ \E answer \in ProviderAnswers(WikipediaAnswers) :
          LET wiki_data == wikipedia_search(answer)
          IN  /\ travel_data' = IF wiki_data.none THEN travel_data
                                ELSE [travel_data EXCEPT !.destination_info = wiki_data]
              /\ responses' = Append(responses, answer)
    /\ calls' = Append(calls, "wikipedia")
    /\ gather_pc' = "openstreetmap"
    /\ UNCHANGED <<user_data, budgetVars, itinVars, priceVars, appVars>>

\* location_data = self.web_searcher.openstreetmap_search(...); if location_data: ...
QueryOpenStreetMap ==
    /\ gather_pc = "openstreetmap"
    /\ \E answer \in ProviderAnswers(OpenStreetMapAnswers) :
          LET location_data == openstreetmap_search(answer)
          IN  /\ travel_data' = IF location_data.none THEN travel_data
                                ELSE [travel_data EXCEPT !.local_info =
                                          [empty |-> FALSE, coordinates |-> location_data]]
              /\ responses' = Append(responses, answer)
    /\ calls' = Append(calls, "openstreetmap")
    /\ gather_pc' = "hotels"
    /\ UNCHANGED <<user_data, budgetVars, itinVars, priceVars, appVars>>

\* ddg_hotels = self.web_searcher.duckduckgo_search(hotel_query); if ddg_hotels: ...
SearchHotels ==
    /\ gather_pc = "hotels"
    /\ \E answer \in ProviderAnswers(DuckDuckGoAnswers) :
          LET ddg_hotels == duckduckgo_search(answer)
          IN  /\ responses' = Append(responses, answer)
              /\ IF ddg_hotels.none
                 THEN travel_data' = travel_data /\ gather_pc' = "transport"
                 ELSE IF MarketRaises(ddg_hotels) # ""
                 THEN travel_data' = travel_data /\ gather_pc' = "raised"
                 ELSE /\ travel_data' = [travel_data EXCEPT !.accommodation_data = MarketData(ddg_hotels)]
                      /\ gather_pc' = "transport"
    /\ calls' = Append(calls, "hotels")
    /\ UNCHANGED <<user_data, budgetVars, itinVars, priceVars, appVars>>

\* ddg_transport = self.web_searcher.duckduckgo_search(transport_query);
\* if ddg_transport: ...; return travel_data
SearchTransport ==
    /\ gather_pc = "transport"
    /\ \E answer \in ProviderAnswers(DuckDuckGoAnswers) :
          LET ddg_transport == duckduckgo_search(answer)
          IN  /\ responses' = Append(responses, answer)
              /\ IF ddg_transport.none
                 THEN travel_data' = travel_data /\ gather_pc' = "returned"
                 ELSE IF MarketRaises(ddg_transport) # ""
                 THEN travel_data' = travel_data /\ gather_pc' = "raised"
                 ELSE /\ travel_data' = [travel_data EXCEPT !.transportation_data = MarketData(ddg_transport)]
                      /\ gather_pc' = "returned"
    /\ calls' = Append(calls, "transport")
    /\ UNCHANGED <<user_data, budgetVars, itinVars, priceVars, appVars>>

GatherRequests ==
    {[DefaultRequest EXCEPT !.destination = d] : d \in Destinations}

InitGather ==
    /\ user_data \in GatherRequests
    /\ gather_pc = "wikipedia"
    /\ travel_data = EmptyTravelData
    /\ calls = <<>>
    /\ responses = <<>>
    /\ BudgetIdle
    /\ ItineraryIdle
    /\ PricesIdle
    /\ clock = Today
    /\ PdfIdle
    /\ MailIdle
    /\ RunIdle

NextGather == QueryWikipedia \/ QueryOpenStreetMap \/ SearchHotels \/ SearchTransport

SpecGather == InitGather /\ [][NextGather]_vars

\* the providers in the order gather_travel_data queries them
Providers == <<"wikipedia", "openstreetmap", "hotels", "transport">>

\* the field of travel_data a provider fills
FieldOf(provider) ==
    CASE provider = "wikipedia" -> travel_data.destination_info
      [] provider = "openstreetmap" -> travel_data.local_info
      [] provider = "hotels" -> travel_data.accommodation_data
      [] provider = "transport" -> travel_data.transportation_data

\* the i-th query made has failed: time-out, exception, status, or a payload
\* that is not what the code expects (no place found counts as no data)
Failed(i) ==
    \/ responses[i].status \in FailedAnswers
    \/ /\ calls[i] = "openstreetmap"
       /\ responses[i].payload = <<>>
    \/ /\ calls[i] \in {"hotels", "transport"}
       /\ responses[i].status = "ok"
       /\ MarketRaises(duckduckgo_search(responses[i])) # ""

(***************************************************************************)
(* C10: a failure of one provider call (time-out, status other than 200,   *)
(* malformed payload, exception) leaves only that provider's field empty:  *)
(* the other providers are still queried and their results stored, and     *)
(* gather_travel_data returns and does not raise; when all four fail,      *)
(* every field of the result is empty.                                     *)
(***************************************************************************)
C10_ProviderFailureIsIsolated ==
    /\ gather_pc # "raised"
    /\ \A i \in 1..Len(calls) :
          /\ calls[i] = Providers[i]
          /\ Failed(i) => FieldOf(calls[i]) = EmptyDict
          /\ ~Failed(i) => FieldOf(calls[i]) # EmptyDict
    /\ gather_pc = "returned" =>
          /\ Len(calls) = 4
          /\ (\A i \in 1..4 : Failed(i)) => travel_data = EmptyTravelData

\* failures that the search methods catch are isolated: the call returns,
\* all four providers were queried, and exactly the failed ones left their
\* field empty
CaughtFailuresAreIsolated ==
    (\A i \in 1..Len(calls) : responses[i].status = "ok" => ~Failed(i) \/ calls[i] = "openstreetmap") =>
        /\ gather_pc # "raised"
        /\ \A i \in 1..Len(calls) :
              /\ calls[i] = Providers[i]
              /\ Failed(i) <=> FieldOf(calls[i]) = EmptyDict
        /\ gather_pc = "returned" =>
              /\ Len(calls) = 4
              /\ (\A i \in 1..4 : Failed(i)) => travel_data = EmptyTravelData

(***************************************************************************)
(* C22: within one call of gather_travel_data each of the four provider    *)
(* queries is issued exactly once: no provider is queried again after it   *)
(* failed, and when the call ends, by a return or by an exception, no      *)
(* query has been skipped because of the failure of another.               *)
(***************************************************************************)
C22_EachProviderQueriedOnce ==
    /\ Len(calls) <= 4
    /\ \A i \in 1..Len(calls) : calls[i] = Providers[i]
    /\ gather_pc \in {"returned", "raised"} => Len(calls) = 4

\* no provider is queried twice, whatever its answer, and a call that
\* returns has issued all four queries
NoProviderQueriedTwice ==
    /\ \A i, j \in 1..Len(calls) : calls[i] = calls[j] => i = j
    /\ \A i \in 1..Len(calls) : calls[i] = Providers[i]
    /\ gather_pc = "returned" => Len(calls) = 4

(***************************************************************************)
(* StructuredTripPDF.create_structured_pdf                                 *)
(*                                                                         *)
(* The document is the sequence of its parts in the order written: the     *)
(* title, the sections opened by add_section_header and the closing note.  *)
(* A part holds the lines written under it: headings written by cell, as   *)
(* passed to it, and paragraphs and bullet points as clean_text_for_pdf    *)
(* leaves them.                                                            *)
(***************************************************************************)
\* a destination written in characters outside Latin-1
Tokyo == "<U+6771><U+4EAC>"

\* the built-in font Arial encodes Latin-1 only
Latin1(str) == str # Tokyo

\* clean_text_for_pdf on a string of the request: the characters of Tokyo
\* are not ASCII and are dropped; the other strings of the model are ASCII
\* without asterisks and are returned as they are
CleanWord(str) == IF str = Tokyo THEN "" ELSE str

RECURSIVE JoinWith(_, _)
\* sep.join(list)
JoinWith(list, sep) ==
    IF list = <<>> THEN ""
    ELSE IF Len(list) = 1 THEN list[1]
    ELSE list[1] \o sep \o JoinWith(Tail(list), sep)

RECURSIVE Grouped(_)
\* f"{n:,}" for n >= 0
Grouped(n) ==
    LET \* three digits of a group after a thousands separator
        ThreeDigits(k) ==
            IF k < 10 THEN "00" \o ToString(k) ELSE IF k < 100 THEN "0" \o ToString(k) ELSE ToString(k)
    IN  IF n < 1000 THEN ToString(n)
        ELSE Grouped(n \div 1000) \o "," \o ThreeDigits(n % 1000)

\* f"{n:,}"
WithCommas(n) == IF n < 0 THEN "-" \o Grouped(-n) ELSE Grouped(n)

Heading(content) == Item("heading", 0, NoDate, "", content, 0)
Paragraph(content) == Item("paragraph", 0, NoDate, "", content, 0)

\* add_bullet_point for every text of a list; an empty text writes nothing
BulletPoints(list) ==
    LET BulletPoint(content) == Item("bullet", 0, NoDate, "", content, 0)
        written == SelectSeq(list, LAMBDA content : content # "")
    IN  [i \in 1..Len(written) |-> BulletPoint(written[i])]

\* a part of the document; latin1 tells whether every text handed to cell
\* as it came from the request can be encoded
Part(section, header, lines, latin1) ==
    [section |-> section, header |-> header, lines |-> lines, latin1 |-> latin1]

\* add_title_section
TitleSection(ud) ==
    Part("title", "", <<
        Heading("Trip Plan to " \o CleanWord(ud.destination)),
        Heading("For: " \o CleanWord(ud.name)),
        Heading("Dates: " \o ToString(ud.departure_date) \o " to " \o ToString(ud.return_date)),
        Heading("Personalized AI-Generated Itinerary"),
        Heading(CleanWord(ud.destination) \o " Trip Plan") >>, TRUE)

\* overview_text; the header is the title as clean_text_for_pdf leaves it,
\* without its emoji.  The lower case of the joined interests is the join
\* of the interests in lower case.
OverviewSection(ud) ==
    LET \* list[:3]
        FirstThree(list) == Prefix(list, 3)
        \* the words of a list in lower case
        LowerAll(list) == [i \in 1..Len(list) |-> Lower(list[i])]
    IN  Part("overview", " Trip Overview", <<
            Paragraph("This " \o ToString(Duration(ud)) \o "-day " \o Lower(ud.trip_type)
                      \o " trip to " \o CleanWord(ud.destination) \o " is designed for "
                      \o ToString(ud.num_travelers) \o " travelers with a total budget of Rs. "
                      \o WithCommas(ud.total_budget) \o ".\n\nThe itinerary focuses on "
                      \o JoinWith(LowerAll(FirstThree(ud.interests)), ", ") \o " with a "
                      \o Lower(ud.travel_pace) \o "-paced schedule, featuring " \o ud.dietary_pref
                      \o " dining options and " \o JoinWith(ud.transport_mode, ", ")
                      \o " transportation.") >>, TRUE)

RECURSIVE ExplorationDays(_, _)
\* the iterations of the loop from day dn on, as steps that may raise
ExplorationDays(ud, dn) ==
    IF dn \notin ExplorationRange(Duration(ud)) THEN <<>>
    ELSE <<ExplorationItems(ud, dn)>> \o ExplorationDays(ud, dn + 1)

\* everything add_detailed_day_by_day_itinerary writes, up to an exception
ItineraryWritten(ud, now) ==
    Written(<<[raised |-> "", items |-> ArrivalItems(ud, now)]>>
            \o ExplorationDays(ud, 2)
            \o <<[raised |-> "",
                  items |-> IF HasDepartureDay(Duration(ud)) THEN DepartureItems(ud, now) ELSE <<>>]>>)

\* add_detailed_day_by_day_itinerary as a part of the document
ItinerarySection(ud, now) ==
    Part("itinerary", " Day-by-Day Itinerary", ItineraryWritten(ud, now).items, TRUE)

\* add_enhanced_budget_breakdown as a part of the document: the row of
\* headers and one line for every row of the table
BudgetSection(ud) ==
    LET \* the third column of the table
        BudgetDetails(category) ==
            CASE category = "Transportation" -> JoinWith(ud.transport_mode, ", ") \o " + local transport"
              [] category = "Accommodation" -> "Hotels for " \o ToString(Duration(ud)) \o " nights"
              [] category = "Food & Dining" -> ud.dietary_pref \o " cuisine preferences"
              [] category = "Activities" -> "Sightseeing and experiences"
              [] category = "Miscellaneous" -> "Shopping and emergency fund"
              [] category = "TOTAL BUDGET" -> "Complete trip allocation"
        rows == BudgetTable(ud)
    IN  Part("budget", " Budget Breakdown",
             <<Item("row", 0, NoDate, "Category", "Details", 0)>>
             \o [i \in 1..Len(rows) |->
                   Item("row", 0, NoDate, rows[i].category,
                        BudgetDetails(rows[i].category), rows[i].amount)],
             TRUE)

\* add_comprehensive_accommodation_section
AccommodationSection(ud) ==
    LET budget_hotels(destination, trip_type) ==
            << "Hotel Orchid " \o CleanWord(destination) \o " - Clean rooms, 24-hour front desk, restaurant, WiFi (Rs. 2,500/night)",
               "Backpacker Hostel - Shared facilities, common area, perfect for " \o Lower(trip_type) \o " groups (Rs. 1,500/night)",
               "Tourist Guest House - Basic amenities, central location, budget-friendly (Rs. 2,000/night)" >>
        midrange_hotels ==
            << "Hotel Metropolitan - 4-star comfort, gym, spa, multiple restaurants (Rs. 4,500/night)",
               "Boutique Heritage Hotel - Local architecture, modern amenities, rooftop dining (Rs. 5,000/night)",
               "Business Hotel Express - Perfect for comfort, conference rooms, executive services (Rs. 3,800/night)" >>
        premium_hotels ==
            << "The Grand Palace Hotel - 5-star luxury, full-service spa, fine dining, concierge (Rs. 8,500/night)",
               "Heritage Mansion - Historic property, unique architecture, premium hospitality (Rs. 7,200/night)",
               "Luxury Resort & Spa - Complete resort experience, recreational facilities, premium service (Rs. 9,000/night)" >>
    IN  Part("lodging", " Where to Stay - Detailed Recommendations",
             <<Heading("Budget Hotels (Rs. 1,500-3,000/night)")>>
             \o BulletPoints(budget_hotels(ud.destination, ud.trip_type))
             \o <<Heading("Mid-range Hotels (Rs. 3,000-6,000/night)")>>
             \o BulletPoints(midrange_hotels)
             \o <<Heading("Premium Hotels (Rs. 6,000+/night)")>>
             \o BulletPoints(premium_hotels),
             TRUE)

\* a transport guide that lists the selected modes in the order of the form
TransportationSectionInFormOrder(ud) ==
    LET TransportModes == <<"Flight", "Train", "Bus", "Car Rental">>
        transport_details(mode, departure_city, destination) ==
            CleanWord(departure_city) \o " to " \o CleanWord(destination) \o
            (CASE mode = "Flight" -> " by air - fastest option, 2-3 hours journey time"
               [] mode = "Train" -> " by train - comfortable, scenic journey, 8-12 hours"
               [] mode = "Bus" -> " by bus - economical option, overnight journey"
               [] mode = "Car Rental" -> " by car - flexible timing, road trip experience")
        known == SelectSeq(TransportModes, LAMBDA mode : Contains(ud.transport_mode, mode))
    IN  Part("transport", " Transportation Guide",
             <<Heading("Main Travel Options")>>
             \o BulletPoints([i \in 1..Len(known) |->
                                 transport_details(known[i], ud.departure_city, ud.destination)])
             \o <<Heading("Local Transportation")>>
             \o BulletPoints(<<"Metro system", "Taxi and ride-sharing", "Auto-rickshaws", "Local buses">>),
             TRUE)

\* add_transportation_section: one bullet point for every selected mode
\* that transport_details knows, in the order selected
TransportationSection(ud) ==
    LET \* the modes the form offers
        TransportModes == <<"Flight", "Train", "Bus", "Car Rental">>
        \* transport_details[mode]
        transport_details(mode, departure_city, destination) ==
            CleanWord(departure_city) \o " to " \o CleanWord(destination) \o
            (CASE mode = "Flight" -> " by air - fastest option, 2-3 hours journey time"
               [] mode = "Train" -> " by train - comfortable, scenic journey, 8-12 hours"
               [] mode = "Bus" -> " by bus - economical option, overnight journey"
               [] mode = "Car Rental" -> " by car - flexible timing, road trip experience")
        local_transport(destination) ==
            << "Metro system - efficient and economical city travel in " \o CleanWord(destination),
               "Taxi and ride-sharing - convenient door-to-door service, app-based booking",
               "Auto-rickshaws - local experience, good for short distances",
               "Local buses - budget-friendly option for city exploration" >>
        known == SelectSeq(ud.transport_mode, LAMBDA mode : Contains(TransportModes, mode))
    IN  Part("transport", " Transportation Guide",
             <<Heading("Main Travel Options")>>
             \o BulletPoints([i \in 1..Len(known) |->
                                 transport_details(known[i], ud.departure_city, ud.destination)])
             \o <<Heading("Local Transportation")>>
             \o BulletPoints(local_transport(ud.destination)),
             TRUE)

\* add_detailed_food_section; the first heading is handed to cell with the
\* destination as the request gives it
FoodSection(ud) ==
    LET \* dishes, chosen by the destination and the dietary preference
        dishes(destination, dietary_pref) ==
            IF Lower(destination) = "delhi"
            THEN IF dietary_pref = "Non-Vegetarian"
                 THEN << "Butter Chicken at Moti Mahal - birthplace of this famous dish (Rs. 400 per plate)",
                         "Kebabs at Karim's - legendary Jama Masjid restaurant, 100+ years old (Rs. 300-500 per plate)",
                         "Nihari at Al Jawahar - slow-cooked mutton stew, Old Delhi specialty (Rs. 350 per plate)",
                         "Biryani at Biryani Blues - aromatic rice with meat, modern presentation (Rs. 450 per plate)" >>
                 ELSE IF dietary_pref = "Vegetarian"
                 THEN << "Chole Bhature at Sita Ram Diwan Chand - iconic Delhi breakfast (Rs. 100 per plate)",
                         "Parathas at Paranthe Wali Gali - stuffed bread varieties, century-old tradition (Rs. 80-120 per paratha)",
                         "Daulat Ki Chaat - winter delicacy, milk foam sweet (Rs. 50 per bowl)",
                         "Rajma Chawal at local dhabas - kidney beans with rice, comfort food (Rs. 150 per plate)" >>
                 ELSE << "Street Food Tour - gol gappa, aloo tikki, raj kachori (Rs. 200-300 total)",
                         "Traditional Thali - complete meal with variety of dishes (Rs. 300-500 per thali)",
                         "Local Sweets - gulab jamun, jalebi, kulfi (Rs. 50-100 per item)",
                         "Lassi and Chaas - traditional drinks, perfect with meals (Rs. 50-80 per glass)" >>
            ELSE << "Local specialty dishes of " \o CleanWord(destination) \o " - regional flavors and traditional preparations",
                    "Street food specialties - popular local snacks and quick bites",
                    "Traditional restaurants - authentic regional cuisine and family recipes",
                    "Modern interpretations - contemporary takes on classic dishes" >>
        restaurant_categories ==
            << "Budget Dining (Rs. 200-500/meal) - Local dhabas, street food joints, casual eateries",
               "Mid-range Dining (Rs. 500-1500/meal) - Popular restaurants, cafe chains, themed restaurants",
               "Fine Dining (Rs. 1500+/meal) - Premium restaurants, hotel dining, specialty cuisine restaurants",
               "Food Courts & Quick Bites (Rs. 150-400/meal) - Mall food courts, fast food, snack counters" >>
    IN  Part("dining", " Food & Dining - Complete Guide",
             <<Heading("Must-Try " \o ud.destination \o " Specialties")>>
             \o BulletPoints(dishes(ud.destination, ud.dietary_pref))
             \o <<Heading("Restaurant Recommendations by Budget")>>
             \o BulletPoints(restaurant_categories),
             Latin1(ud.destination))

\* travel_month = 9 when the dates cannot be subtracted
FallbackMonth == 9

TravelMonth(ud) ==
    LET \* the month of a date, in a year of 365 days whose day 1 is the first of January
        Month(date) ==
            LET day == ((date - 1) % 365) + 1
            IN  IF day <= 31 THEN 1 ELSE IF day <= 59 THEN 2 ELSE IF day <= 90 THEN 3
                ELSE IF day <= 120 THEN 4 ELSE IF day <= 151 THEN 5 ELSE IF day <= 181 THEN 6
                ELSE IF day <= 212 THEN 7 ELSE IF day <= 243 THEN 8 ELSE IF day <= 273 THEN 9
                ELSE IF day <= 304 THEN 10 ELSE IF day <= 334 THEN 11 ELSE 12
    IN  IF ud.return_date = NoDate \/ ud.departure_date = NoDate
        THEN FallbackMonth
        ELSE Month(ud.departure_date)

\* a lookup that knows Delhi only in lower case and has no entry of its own
\* for October and November
get_season_info_exact_case(month, destination) ==
    LET Season(name, clothing_advice, weather_gear) ==
            [name |-> name, clothing_advice |-> clothing_advice, weather_gear |-> weather_gear]
    IN  IF destination = "delhi"
        THEN IF month \in {12, 1, 2} THEN Season("Winter", "warm layers", "light jacket")
             ELSE IF month \in {3, 4, 5} THEN Season("Hot Season", "light cotton clothing", "hat")
             ELSE Season("Monsoon Season", "quick-dry clothes", "umbrella")
        ELSE Season("General Season", "comfortable clothing", "umbrella and light jacket")

\* get_season_info: the season of the packing list
get_season_info(month, destination) ==
    LET Season(name, clothing_advice, weather_gear) ==
            [name |-> name, clothing_advice |-> clothing_advice, weather_gear |-> weather_gear]
    IN  IF Lower(destination) = "delhi"
        THEN IF month \in {12, 1, 2}
             THEN Season("Winter", "warm layers, sweaters, jacket, long pants, warm socks",
                         "light jacket, scarf, and gloves for evening")
             ELSE IF month \in {3, 4, 5}
             THEN Season("Hot Season", "light cotton clothing, breathable fabrics, shorts, t-shirts",
                         "wide-brimmed hat, sunglasses, and light scarf")
             ELSE IF month \in {6, 7, 8, 9}
             THEN Season("Monsoon Season", "quick-dry clothes, light rain jacket, waterproof shoes",
                         "umbrella, waterproof bag covers, and rain poncho")
             ELSE Season("Pleasant Weather", "comfortable cotton clothes, light layers for evening",
                         "light sweater for evening and early morning")
        ELSE Season("General Season", "comfortable clothing suitable for the local climate",
                    "umbrella and light jacket for weather changes")

\* list.extend(more) when the interest is selected
ExtendIf(list, interests, interest, more) ==
    IF Contains(interests, interest) THEN list \o more ELSE list

\* add_comprehensive_packing_tips; the heading of the clothing is handed to
\* cell with the destination as the request gives it
PackingSection(ud) ==
    LET document_essentials ==
            << "Valid photo ID (Aadhar Card, Passport, Driving License) - keep both original and copies",
               "Train/flight tickets and hotel booking confirmations - digital and printed copies",
               "Travel insurance documents and emergency contact details",
               "Medical prescriptions and health certificates if required",
               "Cash in small denominations (Rs. 5,000-10,000) + ATM/credit cards",
               "Digital copies of all documents stored in cloud (Google Drive, Dropbox)" >>
        clothing_items(season, duration) ==
            << "Comfortable walking shoes (2 pairs) - broken-in sneakers and formal shoes",
               "Weather-appropriate clothing - " \o season.clothing_advice,
               "Undergarments for " \o ToString(duration + 2) \o " days - pack extra for comfort",
               "Sleepwear and comfortable lounging clothes",
               "One formal outfit for fine dining or cultural events",
               "Quick-dry socks and comfortable underwear",
               "Weather protection - " \o season.weather_gear >>
        electronics(interests) ==
            ExtendIf(ExtendIf(
            << "Smartphone with offline maps downloaded (Google Maps offline)",
                "Power bank (10,000-20,000 mAh) and charging cables",
                "Universal power adapter and portable charger",
                "Camera with extra memory cards and batteries",
                "Earphones/headphones for travel entertainment",
                "Portable WiFi hotspot or local SIM card information" >>,
            interests, "Photography",
            << "DSLR/mirrorless camera with multiple lenses",
               "Tripod (compact travel tripod)",
               "Camera cleaning kit and lens filters" >>),
            interests, "Adventure",
            << "Action camera (GoPro) with mounts and accessories",
               "GPS device or GPS watch for trekking" >>)
        health_items ==
            << "Basic first-aid kit - band-aids, antiseptic, pain relievers",
               "Personal medications with extra supply",
               "Hand sanitizer and wet wipes",
               "Sunscreen (SPF 30+) and after-sun lotion",
               "Insect repellent (especially for outdoor activities)",
               "Personal toiletries in travel-size containers",
               "Oral rehydration salts (ORS) and digestive aids",
               "Face masks and any required COVID-19 related items" >>
        \* interest_items of the packing tips
        interest_items(interests) ==
            ExtendIf(ExtendIf(ExtendIf(ExtendIf(ExtendIf(<<>>,
            interests, "Adventure",
            << "Trekking shoes and hiking socks",
               "Quick-dry adventure clothing and cargo pants",
               "Waterproof backpack and dry bags",
               "Water bottles and energy bars" >>),
            interests, "Culture",
            << "Modest clothing for religious sites (covered shoulders/legs)",
               "Comfortable shoes for walking in museums",
               "Notebook for cultural observations" >>),
            interests, "Food",
            << "Digestive tablets and probiotics",
               "Food diary or camera for food photography",
               "Reusable water bottle for food tours" >>),
            interests, "Shopping",
            << "Extra luggage space or foldable duffel bag",
               "Calculator for currency conversion",
               "Measuring tape for clothing purchases" >>),
            interests, "Nature",
            << "Binoculars for bird watching",
               "Field notebook for nature observations",
               "Comfortable outdoor seating (portable chair)" >>)
        misc_items(destination) ==
            << "Reusable water bottle and snacks for travel",
               "Travel pillow and eye mask for comfortable journey",
               "Laundry bag and travel-size detergent",
               "Swiss Army knife or multi-tool (pack in checked luggage)",
               "Duct tape and zip ties for emergency repairs",
               "Travel locks for luggage security",
               "Emergency whistle and flashlight",
               "Local guidebook or phrasebook for " \o CleanWord(destination) >>
        season == get_season_info(TravelMonth(ud), ud.destination)
    IN  Part("packing", " Packing Essentials - Complete Checklist",
             <<Heading("Essential Documents & Money")>>
             \o BulletPoints(document_essentials)
             \o <<Heading("Clothing for " \o season.name \o " in " \o ud.destination)>>
             \o BulletPoints(clothing_items(season, Duration(ud)))
             \o <<Heading("Electronics & Gadgets")>>
             \o BulletPoints(electronics(ud.interests))
             \o <<Heading("Health & Personal Care")>>
             \o BulletPoints(health_items)
             \o (IF ud.interests # <<>>
                 THEN <<Heading("Special Items for Your Interests")>>
                      \o BulletPoints(interest_items(ud.interests))
                 ELSE <<>>)
             \o <<Heading("Miscellaneous Essentials")>>
             \o BulletPoints(misc_items(ud.destination)),
             Latin1(ud.destination))

\* add_comprehensive_local_tips
LocalTipsSection(ud) ==
    LET cultural_tips(destination) ==
            IF Lower(destination) = "delhi"
            THEN << "Remove shoes when entering temples, gurdwaras, and some traditional homes",
                    "Dress modestly at religious sites - cover shoulders, arms, and legs",
                    "Use \"Namaste\" greeting with palms together - respectful and appreciated",
                    "Avoid pointing feet toward people or religious objects",
                    "Use right hand for eating, greeting, and giving/receiving items",
                    "Photography may be restricted in some religious and government buildings",
                    "Respect local customs during festivals and religious ceremonies" >>
            ELSE << "Research " \o CleanWord(destination) \o " cultural customs and local etiquette before arrival",
                    "Dress appropriately according to local customs and religious sites",
                    "Learn basic local greetings and common phrases",
                    "Respect religious and cultural practices",
                    "Be mindful of photography restrictions at cultural sites",
                    "Follow local dining etiquette and customs" >>
        money_tips ==
            << "Carry small denominations (Rs. 10, 20, 50, 100) for street vendors and auto-rickshaws",
               "Bargaining is expected at local markets - start at 30-40% of quoted price",
               "Fixed price shops and malls don't allow bargaining - prices are set",
               "Keep money in multiple places - wallet, bag, and hidden pocket",
               "ATMs are widely available - use bank ATMs for better security",
               "Digital payments (Paytm, Google Pay, PhonePe) are widely accepted",
               "Tipping: 10% at restaurants, Rs. 20-50 for hotel staff, Rs. 10-20 for taxi drivers" >>
        transport_tips(destination) ==
            IF Lower(destination) = "delhi"
            THEN << "Delhi Metro is the fastest way to travel - buy a metro card for convenience",
                    "Use Ola/Uber for comfortable rides - safer than negotiating with taxi drivers",
                    "Auto-rickshaws should use the meter - insist on it or agree on fare beforehand",
                    "Avoid rush hours (8-10 AM, 6-8 PM) for smoother travel",
                    "Download offline maps - Delhi traffic can be unpredictable",
                    "Bus routes are extensive but can be crowded - metro is more comfortable",
                    "Keep traffic conditions in mind - allow extra time for important appointments" >>
            ELSE << "Research " \o CleanWord(destination) \o " public transportation options before arrival",
                    "Use ride-sharing apps for safe and convenient travel",
                    "Negotiate taxi fares in advance or insist on using the meter",
                    "Download offline maps and transportation apps",
                    "Keep local transportation schedules and routes handy",
                    "Allow extra time for travel during peak hours" >>
        food_safety_tips ==
            << "Drink bottled water or properly boiled water - avoid tap water",
               "Eat at busy restaurants with high turnover - fresher food",
               "Avoid raw salads and unpeeled fruits from street vendors",
               "Street food is generally safe at popular, crowded stalls",
               "Carry ORS packets and basic stomach medications",
               "Wash hands frequently or use hand sanitizer before eating",
               "Start with milder spices and gradually try spicier food" >>
        safety_tips ==
            << "Keep copies of important documents separate from originals",
               "Avoid displaying expensive jewelry, cameras, or large amounts of cash",
               "Stay in groups, especially in crowded markets and tourist areas",
               "Be cautious of overly friendly strangers offering help or deals",
               "Keep hotel address and contact number written down in local language",
               "Trust your instincts - if something feels wrong, remove yourself from the situation",
               "Use hotel safes for valuable items and important documents",
               "Keep emergency numbers saved in your phone and written down" >>
        communication_tips ==
            << "English is widely spoken in tourist areas and hotels",
               "Learn basic local phrases: \"Thank you\" (Dhanyawad), \"How much?\" (Kitna?)",
               "Download Google Translate app with offline language packs",
               "Keep hotel business card with address in local language",
               "Use translation apps for menu reading and basic communication",
               "Locals are generally helpful - don't hesitate to ask for directions",
               "Speak clearly and be patient - language barriers are manageable" >>
        \* interest_tips of the local tips
        interest_tips(interests) ==
            ExtendIf(ExtendIf(ExtendIf(ExtendIf(ExtendIf(<<>>,
            interests, "Photography",
            << "Ask permission before photographing people, especially in rural areas",
               "Golden hour photography is best - early morning and late afternoon",
               "Protect camera equipment from dust and humidity" >>),
            interests, "Food",
            << "Visit local markets in the morning for fresh ingredients",
               "Ask hotel staff for authentic local restaurant recommendations",
               "Try regional breakfast dishes - often the most authentic meals" >>),
            interests, "Shopping",
            << "Government emporiums have fixed prices and authentic products",
               "Best bargains are found in local markets, not tourist areas",
               "Check weight restrictions for flights before buying heavy items" >>),
            interests, "Adventure",
            << "Book adventure activities through reputable tour operators",
               "Check weather conditions before outdoor activities",
               "Inform hotel staff about your adventure plans and expected return" >>),
            interests, "Culture",
            << "Visit cultural sites early morning to avoid crowds",
               "Hire local guides for deeper cultural insights",
               "Attend local festivals or cultural events if timing aligns" >>)
    IN  Part("local_tips", " Local Tips & Cultural Guidelines",
             <<Heading("Cultural Etiquette & Customs")>>
             \o BulletPoints(cultural_tips(ud.destination))
             \o <<Heading("Money Matters & Bargaining")>>
             \o BulletPoints(money_tips)
             \o <<Heading("Getting Around Like a Local")>>
             \o BulletPoints(transport_tips(ud.destination))
             \o <<Heading("Food & Water Safety")>>
             \o BulletPoints(food_safety_tips)
             \o <<Heading("Safety & Security Guidelines")>>
             \o BulletPoints(safety_tips)
             \o <<Heading("Communication & Language")>>
             \o BulletPoints(communication_tips)
             \o (IF ud.interests # <<>>
                 THEN <<Heading("Tips for Your Specific Interests")>>
                      \o BulletPoints(interest_tips(ud.interests))
                 ELSE <<>>),
             TRUE)

\* add_emergency_contacts_section
EmergencySection(ud) ==
    LET contacts ==
            << "Primary Traveler: " \o CleanWord(ud.name) \o " - " \o CleanWord(ud.mobile),
               "Emergency Contact: " \o CleanWord(ud.emergency_contact) >>
        emergency_numbers ==
            << "Universal Emergency: 112 (Police, Fire, Medical)",
               "Police: 100",
               "Fire Brigade: 101",
               "Ambulance: 108",
               "Tourist Helpline: 1363 (24x7 multilingual support)",
               "Women's Safety: 1091",
               "Railway Enquiry: 139",
               "Road Accident Emergency: 1073" >>
        services ==
            << "Airport Enquiry: Check specific airport contact numbers",
               "Indian Railways: 139 (booking and enquiry)",
               "Taxi/Cab Services: Ola (Dial Ola), Uber (app-based)",
               "Medical Emergency: Nearest hospital contact numbers",
               "Embassy/Consulate: Keep relevant contact if international traveler",
               "Travel Insurance: Keep policy number and emergency contact handy" >>
    IN  Part("emergency", " Emergency Contacts & Important Information",
             <<Heading("Personal Emergency Contacts")>>
             \o BulletPoints(contacts)
             \o <<Heading("Official Emergency Numbers (India)")>>
             \o BulletPoints(emergency_numbers)
             \o <<Heading("Important Services & Contacts")>>
             \o BulletPoints(services),
             TRUE)

\* final_note
ClosingNote(ud) ==
    Part("closing", "", <<
        Paragraph("Enjoy your " \o ToString(Duration(ud)) \o "-day adventure in "
                  \o CleanWord(ud.destination)
                  \o "! This personalized itinerary matches your interests and budget. Have a wonderful and safe trip!") >>,
         TRUE)

\* a synthesis whose overview is the generated plan
WriteSectionWithPlan(at, part, raised, next_pc) ==
    /\ pdf_pc = at
    /\ IF raised # "" \/ (~part.latin1 /\ fpdf = "fpdf2")
       THEN pdf' = pdf /\ pdf_pc' = "raised"
       ELSE /\ pdf' = Append(pdf, IF at = "overview"
                                  THEN [part EXCEPT !.lines = <<Paragraph(trip_plan)>>]
                                  ELSE part)
            /\ pdf_pc' = next_pc
    /\ UNCHANGED <<user_data, clock, fpdf, budgetVars, itinVars, priceVars, gatherVars, mailVars, runVars>>

\* One call of create_structured_pdf that writes a part.  An exception of
\* the call leaves create_structured_pdf.  A text outside Latin-1 handed to
\* cell makes fpdf2 raise there; PyFPDF keeps it and raises when output
\* encodes the pages.
WriteSection(at, part, raised, next_pc) ==
    /\ pdf_pc = at
    /\ IF raised # "" \/ (~part.latin1 /\ fpdf = "fpdf2")
       THEN pdf' = pdf /\ pdf_pc' = "raised"
       ELSE pdf' = Append(pdf, part) /\ pdf_pc' = next_pc
    /\ UNCHANGED <<user_data, clock, fpdf, budgetVars, itinVars, priceVars, gatherVars, mailVars, runVars>>

\* return pdf.output(dest='S'): the pages are encoded in Latin-1
Output ==
    /\ pdf_pc = "output"
    /\ pdf_pc' = IF \A i \in 1..Len(pdf) : pdf[i].latin1 THEN "returned" ELSE "raised"
    /\ UNCHANGED <<user_data, clock, fpdf, pdf, budgetVars, itinVars, priceVars, gatherVars, mailVars, runVars>>

\* the steps of create_structured_pdf: pdf.add_title_section(...), the
\* overview, the eight sections, the closing note and the output
NextDocument ==
    \/ WriteSection("title", TitleSection(user_data), "", "overview")
    \/ WriteSection("overview", OverviewSection(user_data), "", "itinerary")
    \/ WriteSection("itinerary", ItinerarySection(user_data, clock),
                    ItineraryWritten(user_data, clock).raised, "budget")
    \/ WriteSection("budget", BudgetSection(user_data), "", "lodging")
    \/ WriteSection("lodging", AccommodationSection(user_data), "", "transport")
    \/ WriteSection("transport", TransportationSection(user_data), "", "dining")
    \/ WriteSection("dining", FoodSection(user_data), "", "packing")
    \/ WriteSection("packing", PackingSection(user_data), "", "local_tips")
    \/ WriteSection("local_tips", LocalTipsSection(user_data), "", "emergency")
    \/ WriteSection("emergency", EmergencySection(user_data), "", "closing")
    \/ WriteSection("closing", ClosingNote(user_data), "", "output")
    \/ Output

\* requests of the documents.  The destinations are Delhi, a destination
\* without a catalog of its own, and one written outside Latin-1; the
\* transport modes are selections that run accepts.
DocumentRequests ==
    {[DefaultRequest EXCEPT !.destination = d, !.return_date = Today + (n - 1),
                            !.interests = l, !.transport_mode = m] :
        d \in {"Delhi", "Goa", Tokyo}, n \in 1..MaxDocumentDays,
        l \in {<<>>, <<"Culture", "Food", "Beaches">>, <<"Photography", "Adventure">>,
               <<"Food", "History">>, <<"Beaches">>},
        m \in {<<"Flight">>, <<"Bus", "Train">>}}

InitDocument ==
    /\ user_data \in DocumentRequests
    /\ clock \in Today..(Today + MaxClockDays)
    /\ fpdf \in {"PyFPDF", "fpdf2"}
    /\ pdf_pc = "title"
    /\ pdf = <<>>
    /\ BudgetIdle
    /\ ItineraryIdle
    /\ PricesIdle
    /\ GatherIdle
    /\ MailIdle
    /\ RunIdle

SpecDocument == InitDocument /\ [][NextDocument]_vars

\* the seasons of the packing list: requests for Delhi, written in three
\* ways, and for another destination, leaving in each month of the year to come
MaxMonthsAhead == 11
SeasonRequests ==
    {[DefaultRequest EXCEPT !.destination = d, !.departure_date = Today + 30 * k,
                            !.return_date = Today + 30 * k + 2, !.interests = l] :
        d \in {"Delhi", "DELHI", "delhi", "Goa"}, k \in 0..MaxMonthsAhead,
        l \in {<<>>, <<"Food", "History">>}}

InitSeason ==
    /\ user_data \in SeasonRequests
    /\ clock = Today
    /\ fpdf \in {"PyFPDF", "fpdf2"}
    /\ pdf_pc = "title"
    /\ pdf = <<>>
    /\ BudgetIdle
    /\ ItineraryIdle
    /\ PricesIdle
    /\ GatherIdle
    /\ MailIdle
    /\ RunIdle

SpecSeason == InitSeason /\ [][NextDocument]_vars

\* the sections of a complete document, in order
SectionOrder ==
    <<"overview", "itinerary", "budget", "lodging", "transport", "dining", "packing",
      "local_tips", "emergency", "closing">>

\* the sections written so far, in the order written; the title is no section
SectionsWritten ==
    LET parts == SelectSeq(pdf, LAMBDA part : part.section # "title")
    IN  [i \in 1..Len(parts) |-> parts[i].section]

\* the sections written are the first sections of the order, each once
InSectionOrder ==
    /\ Len(SectionsWritten) <= Len(SectionOrder)
    /\ \A i \in 1..Len(SectionsWritten) : SectionsWritten[i] = SectionOrder[i]

(***************************************************************************)
(* C16: for every request create_structured_pdf writes the sections        *)
(* overview, itinerary, budget, lodging, transport, dining, packing, local *)
(* tips, emergency contacts, closing note in this order, each exactly      *)
(* once, whatever the destination, the interests, the duration and the     *)
(* transport modes.                                                        *)
(***************************************************************************)
C16_SectionsInFixedOrder ==
    /\ InSectionOrder
    /\ pdf_pc # "raised"
    /\ pdf_pc \in {"output", "returned"} => SectionsWritten = SectionOrder

\* for a destination that Latin-1 can encode the ten sections are written
\* in the order, each once, and the document is returned
SectionsInFixedOrderWhenEncodable ==
    /\ InSectionOrder
    /\ Latin1(user_data.destination) =>
          /\ pdf_pc # "raised"
          /\ pdf_pc \in {"output", "returned"} => SectionsWritten = SectionOrder

\* the document of a request built on the day now
DocumentParts(ud, now) ==
    << TitleSection(ud), OverviewSection(ud), ItinerarySection(ud, now), BudgetSection(ud),
       AccommodationSection(ud), TransportationSection(ud), FoodSection(ud),
       PackingSection(ud), LocalTipsSection(ud), EmergencySection(ud), ClosingNote(ud) >>

(***************************************************************************)
(* C17: what is written for a request does not depend on the wall clock:   *)
(* on whatever day the document is built, every part written, the          *)
(* itinerary, the budget breakdown and the advisory sections, is the part  *)
(* the same request gives on the day the form was filled in.               *)
(***************************************************************************)
C17_SynthesisDependsOnRequestOnly ==
    /\ Len(pdf) <= 11
    /\ \A i \in 1..Len(pdf) : pdf[i] = DocumentParts(user_data, Today)[i]

\* a document built the day after the form was filled in, whose itinerary
\* is dated from the departure date of the request
C17_Witness ==
    /\ pdf_pc = "returned"
    /\ clock # Today
    /\ Len(pdf) = 11
    /\ Duration(user_data) >= 3
    /\ pdf[3].section = "itinerary"
    /\ pdf[3].lines[2].date = user_data.departure_date
    /\ pdf[3] = ItinerarySection(user_data, Today)

\* the parts of the document written so far that belong to a section
PartsOf(section) == SelectSeq(pdf, LAMBDA part : part.section = section)

\* the position of the first line of a part that is the heading `content`
\* (0 when the part has no such heading)
HeadingAt(part, content) ==
    LET at == {i \in 1..Len(part.lines) : part.lines[i] = Heading(content)}
    IN  IF at = {} THEN 0 ELSE Minimum(at)

\* the lines of a part between the heading `content` and the next heading
LinesUnder(part, content) ==
    LET from == HeadingAt(part, content)
        later == {i \in (from + 1)..Len(part.lines) : part.lines[i].kind = "heading"}
        to == IF later = {} THEN Len(part.lines) + 1 ELSE Minimum(later)
    IN  IF from = 0 THEN <<>> ELSE SubSeq(part.lines, from + 1, to - 1)

\* the four modes of travel the guide knows, and the words that tell the
\* entry of each from the others
MainTravelModes == {"Flight", "Train", "Bus", "Car Rental"}
MainTravelEntry(mode, ud) ==
    CleanWord(ud.departure_city) \o " to " \o CleanWord(ud.destination) \o
    (CASE mode = "Flight" -> " by air - fastest option, 2-3 hours journey time"
       [] mode = "Train" -> " by train - comfortable, scenic journey, 8-12 hours"
       [] mode = "Bus" -> " by bus - economical option, overnight journey"
       [] mode = "Car Rental" -> " by car - flexible timing, road trip experience"
       [] OTHER -> "")

\* the request with every free text of the form folded by clean_text_for_pdf
FoldedRequest(ud) ==
    [ud EXCEPT !.destination = CleanWord(@), !.departure_city = CleanWord(@),
               !.name = CleanWord(@)]

\* the lines of the i-th written part that differ from the lines the folded
\* request gives; an activity of the itinerary is kept as it is given to
\* add_bullet_point, which folds it before it renders it
UnfoldedLines(i) ==
    LET folded == DocumentParts(FoldedRequest(user_data), Today)[i]
    IN  {k \in 1..Len(pdf[i].lines) :
            /\ ~(pdf[i].section = "itinerary" /\ pdf[i].lines[k].kind = "bullet")
            /\ k > Len(folded.lines) \/ pdf[i].lines[k] # folded.lines[k]}

\* C25: every text handed to a rendering call that holds content of the
\* request has passed through clean_text_for_pdf first, in every section
\* heading and sub-section heading too: what is written for a request is what
\* is written for the folded request
C25_RenderedTextIsFolded ==
    \A i \in 1..Len(pdf) :
        /\ pdf[i].header = DocumentParts(FoldedRequest(user_data), Today)[i].header
        /\ UnfoldedLines(i) = {}

\* the texts written unfolded are one sub-section heading of the food guide
\* and one of the packing list, and nothing else
UnfoldedHeadingsOnly ==
    \A i \in 1..Len(pdf) :
        /\ pdf[i].header = DocumentParts(FoldedRequest(user_data), Today)[i].header
        /\ Len(pdf[i].lines) = Len(DocumentParts(FoldedRequest(user_data), Today)[i].lines)
        /\ Cardinality(UnfoldedLines(i)) <= 1
        /\ \A k \in UnfoldedLines(i) :
              /\ pdf[i].section \in {"dining", "packing"}
              /\ pdf[i].lines[k].kind = "heading"
              /\ user_data.destination = Tokyo
              /\ fpdf = "PyFPDF"

\* the rank of a line in its part: the header of a section, a heading of the
\* size of a day of arrival, a heading of the size of a day of exploration,
\* and a line of content
Rank(line) ==
    CASE line.kind = "section" -> 1
      [] line.kind = "heading" -> 2
      [] line.kind = "day" -> IF IsExploration(line) THEN 3 ELSE 2
      [] OTHER -> 4

\* the headings of a part with nothing under them: no line follows, or the
\* next line is a heading of the same rank or above
EmptyHeadings(part) ==
    {k \in 1..Len(part.lines) :
        /\ Rank(part.lines[k]) < 4
        /\ k = Len(part.lines) \/ Rank(part.lines[k + 1]) <= Rank(part.lines[k])}

\* the parts written after the title block
SectionsOfDocument == SelectSeq(pdf, LAMBDA part : part.section # "title")

\* C27: every section heading and every sub-section heading is followed by at
\* least one item of content; the 'Main Exploration' heading and the headings
\* of the interest-specific packing items and local tips are never written
\* with nothing under them
C27_NoEmptyHeading ==
    \A i \in 1..Len(SectionsOfDocument) :
        /\ SectionsOfDocument[i].lines # <<>>
        /\ EmptyHeadings(SectionsOfDocument[i]) = {}

\* the headings written with nothing under them are 'Main Exploration' for a
\* trip of one or two days, and the two headings of the interest-specific
\* items when none of the selected interests has an item
EmptyHeadingsAreTheThree ==
    \A i \in 1..Len(SectionsOfDocument) :
        LET part == SectionsOfDocument[i]
        IN  /\ part.lines # <<>>
            /\ \A k \in EmptyHeadings(part) :
                  \/ /\ part.section = "itinerary"
                     /\ part.lines[k].label = "Main Exploration"
                     /\ Duration(user_data) <= 2
                  \/ /\ part.section = "packing"
                     /\ part.lines[k] = Heading("Special Items for Your Interests")
                     /\ user_data.interests # <<>>
                     /\ InterestSet
                           \cap {"Adventure", "Culture", "Food", "Shopping", "Nature"} = {}
                  \/ /\ part.section = "local_tips"
                     /\ part.lines[k] = Heading("Tips for Your Specific Interests")
                     /\ user_data.interests # <<>>
                     /\ InterestSet
                           \cap {"Photography", "Food", "Shopping", "Adventure", "Culture"} = {}

\* a document has been written with each of the three headings empty
ThreeEmptyHeadingsWritten ==
    /\ pdf_pc = "returned"
    /\ Duration(user_data) = 2
    /\ user_data.interests = <<"Beaches">>
    /\ EmptyHeadings(PartsOf("itinerary")[1]) # {}
    /\ EmptyHeadings(PartsOf("packing")[1]) # {}
    /\ EmptyHeadings(PartsOf("local_tips")[1]) # {}

\* the names of the four seasons of Delhi and of the generic entry
DelhiSeasons == {"Winter", "Hot Season", "Monsoon Season", "Pleasant Weather"}
GenericSeason == "General Season"

\* the season named by the clothing heading of a packing part, as the set of
\* the names the heading can be read as
SeasonsNamed(part, destination) ==
    {name \in DelhiSeasons \cup {GenericSeason} :
        HeadingAt(part, "Clothing for " \o name \o " in " \o destination) # 0}

\* C24: the seasonal lookup is total over the months 1..12: for Delhi, in any
\* letter case, the months 12, 1, 2 give Winter, 3 to 5 the Hot Season, 6 to 9
\* the Monsoon Season and 10 to 11 the post-monsoon entry, every month exactly
\* one of the four; every other destination gives the single generic entry
C24_SeasonLookupIsTotal ==
    LET month == TravelMonth(user_data)
        destination == user_data.destination
        named == IF PartsOf("packing") = <<>> THEN {}
                 ELSE SeasonsNamed(PartsOf("packing")[1], destination)
    IN  /\ month \in 1..12
        /\ pdf_pc # "raised"
        /\ Len(PartsOf("packing")) <= 1
        /\ pdf_pc \in {"local_tips", "emergency", "closing", "output", "returned"}
              => Len(PartsOf("packing")) = 1
        /\ PartsOf("packing") # <<>> =>
              /\ Cardinality(named) = 1
              /\ IF destination \in {"Delhi", "DELHI", "delhi"}
                 THEN /\ named \subseteq DelhiSeasons
                      /\ month \in {12, 1, 2} => named = {"Winter"}
                      /\ month \in {3, 4, 5} => named = {"Hot Season"}
                      /\ month \in {6, 7, 8, 9} => named = {"Monsoon Season"}
                      /\ month \in {10, 11} => named = {"Pleasant Weather"}
                 ELSE named = {GenericSeason}

C24_Witness ==
    /\ user_data.destination = "DELHI"
    /\ TravelMonth(user_data) = 11
    /\ pdf_pc = "returned"
    /\ SeasonsNamed(PartsOf("packing")[1], "DELHI") = {"Pleasant Weather"}

\* every month of the year is looked up, for Delhi and for another destination
SeasonsOfTheYear ==
    \A month \in 1..12 : \A d \in {"Delhi", "Goa"} :
        \E ud \in SeasonRequests : TravelMonth(ud) = month /\ ud.destination = d

\* C23: the main-travel list of the transport guide has exactly one entry for
\* each selected mode among Flight, Train, Bus and Car Rental, in the order of
\* selection; a selected mode outside these four gives no entry and no error,
\* and a mode that was not selected never appears
C23_OneEntryPerSelectedMode ==
    LET selected == user_data.transport_mode
        known == SelectSeq(selected, LAMBDA mode : mode \in MainTravelModes)
    IN  /\ Len(PartsOf("transport")) <= 1
        /\ pdf_pc \in {"dining", "packing", "local_tips", "emergency", "closing", "output", "returned"}
              => Len(PartsOf("transport")) = 1
        \* the step that writes the guide does not fail
        /\ pdf_pc = "raised" => Len(pdf) # 5
        /\ \A p \in 1..Len(PartsOf("transport")) :
              LET entries == LinesUnder(PartsOf("transport")[p], "Main Travel Options")
              IN  /\ Len(entries) = Len(known)
                  /\ \A i \in 1..Len(entries) :
                        /\ entries[i].kind = "bullet"
                        /\ entries[i].text = MainTravelEntry(known[i], user_data)
                  /\ \A mode \in MainTravelModes :
                        ~Contains(selected, mode)
                           => \A i \in 1..Len(entries) :
                                 entries[i].text # MainTravelEntry(mode, user_data)

C23_Witness ==
    /\ user_data.transport_mode = <<"Bus", "Train">>
    /\ Len(PartsOf("transport")) = 1
    /\ LET entries == LinesUnder(PartsOf("transport")[1], "Main Travel Options")
       IN  /\ Len(entries) = 2
           /\ entries[1].text = MainTravelEntry("Bus", user_data)
           /\ entries[2].text = MainTravelEntry("Train", user_data)

(***************************************************************************)
(* AITripPlanner.send_email                                                *)
(***************************************************************************)
\* except Exception as e: ...; return False.  The handler catches whatever
\* the body raises: the error of st.secrets without a secrets file, the
\* errors of the document, those of smtplib and of the socket.
CaughtSmtpErrorsOnly(exc) == exc \in {"SMTPException"}

CaughtBySendEmail(exc) ==
    exc \in {"StreamlitSecretNotFoundError", "KeyError", "UnicodeEncodeError",
             "FPDFUnicodeEncodingException", "OSError", "SMTPException"}

\* an exception raised in the body of send_email
SendEmailRaises(exc) ==
    IF CaughtBySendEmail(exc)
    THEN mail_pc' = "returned" /\ mail_result' = FALSE
    ELSE mail_pc' = "raised" /\ mail_result' = mail_result

\* sender_email = st.secrets.get("SENDER_EMAIL"); sender_password = ...;
\* if not sender_email or not sender_password: return False; the message
\* is prepared and create_structured_pdf is called
ReadSecrets ==
    /\ mail_pc = "credentials"
    /\ IF ~secrets.readable
       THEN SendEmailRaises("StreamlitSecretNotFoundError") /\ pdf_pc' = pdf_pc
       ELSE IF secrets.SENDER_EMAIL = "" \/ secrets.SENDER_PASSWORD = ""
       THEN mail_pc' = "returned" /\ mail_result' = FALSE /\ pdf_pc' = pdf_pc
       ELSE mail_pc' = "render" /\ mail_result' = mail_result /\ pdf_pc' = "title"
    /\ UNCHANGED <<user_data, clock, fpdf, pdf, secrets, smtp, budgetVars, itinVars, priceVars,
                   gatherVars, runVars>>

\* pdf_bytes = self.create_structured_pdf(trip_plan, user_data);
\* if not pdf_bytes: return False; the bytes are attached
AttachDocument ==
    /\ mail_pc = "render"
    /\ pdf_pc \in {"returned", "raised"}
    /\ IF pdf_pc = "raised"
       THEN SendEmailRaises(IF ItineraryWritten(user_data, clock).raised # "" THEN "KeyError"
                            ELSE IF fpdf = "fpdf2" THEN "FPDFUnicodeEncodingException"
                            ELSE "UnicodeEncodeError")
       ELSE IF pdf = <<>>
       THEN mail_pc' = "returned" /\ mail_result' = FALSE
       ELSE mail_pc' = "smtp" /\ mail_result' = mail_result
    /\ UNCHANGED <<user_data, pdfVars, secrets, smtp, budgetVars, itinVars, priceVars, gatherVars,
                   runVars>>

\* with smtplib.SMTP("smtp.gmail.com", 587) as server: server.starttls();
\* server.login(...); server.send_message(msg), and the QUIT sent when the
\* with block is left; return True.  Each of them may raise.
Smtp ==
    /\ mail_pc = "smtp"
    /\ \E ok \in BOOLEAN :
          LET commands == <<"connect", "starttls", "login", "send_message", "quit">>
              command == commands[Len(smtp) + 1]
          IN  /\ smtp' = Append(smtp, [command |-> command, ok |-> ok])
              /\ IF ~ok
                 THEN SendEmailRaises(IF command = "connect" THEN "OSError" ELSE "SMTPException")
                 ELSE IF command = "quit"
                 THEN mail_pc' = "returned" /\ mail_result' = TRUE
                 ELSE mail_pc' = mail_pc /\ mail_result' = mail_result
    /\ UNCHANGED <<user_data, pdfVars, secrets, budgetVars, itinVars, priceVars, gatherVars,
                   runVars>>

(***************************************************************************)
(* AITripPlanner.run, for a press of the button                            *)
(*                                                                         *)
(* A text is the sequence of its characters.                               *)
(***************************************************************************)
\* what generate_trip_plan_with_data returns without a client
ErrorNoClient ==
    << "E", "r", "r", "o", "r", ":", " ", "A", "I", " ", "s", "e", "r", "v", "i", "c", "e",
       " ", "i", "s", " ", "n", "o", "t", " ", "a", "v", "a", "i", "l", "a", "b", "l", "e",
       "." >>

\* what it returns when the call of the model raises, here by a time-out
ErrorGeneration ==
    << "A", "n", " ", "e", "r", "r", "o", "r", " ", "o", "c", "c", "u", "r", "r", "e", "d",
       " ", "w", "h", "i", "l", "e", " ", "g", "e", "n", "e", "r", "a", "t", "i", "n", "g",
       " ", "t", "h", "e", " ", "t", "r", "i", "p", " ", "p", "l", "a", "n", ":", " ", "R",
       "e", "q", "u", "e", "s", "t", " ", "t", "i", "m", "e", "d", " ", "o", "u", "t", "." >>

\* str.startswith
StartsWith(str, prefix) ==
    Len(str) >= Len(prefix) /\ SubSeq(str, 1, Len(prefix)) = prefix

\* re.match(r'^[a-zA-Z0-9._%+-]+@[a-zA-Z0-9.-]+\.[a-zA-Z]{2,}$', email) for
\* an address without a line break: at stands for the @ of the pattern and
\* dot for its \.
EmailMatches(email) ==
    LET letters == {"a", "b", "c", "d", "e", "f", "g", "h", "i", "j", "k", "l", "m",
                    "n", "o", "p", "q", "r", "s", "t", "u", "v", "w", "x", "y", "z",
                    "A", "B", "C", "D", "E", "F", "G", "H", "I", "J", "K", "L", "M",
                    "N", "O", "P", "Q", "R", "S", "T", "U", "V", "W", "X", "Y", "Z"}
        local == letters \cup Digits \cup {".", "_", "%", "+", "-"}
        domain == letters \cup Digits \cup {".", "-"}
    IN  \E at \in 2..Len(email), dot \in 4..Len(email) :
           /\ at + 1 < dot
           /\ dot + 2 <= Len(email)
           /\ email[at] = "@"
           /\ email[dot] = "."
           /\ \A i \in 1..(at - 1) : email[i] \in local
           /\ \A i \in (at + 1)..(dot - 1) : email[i] \in domain
           /\ \A i \in (dot + 1)..Len(email) : email[i] \in letters

\* the checks of run without the one of the transport modes
InputErrorWithoutTransportCheck(ud) ==
    IF \E field \in {"name", "destination", "departure_city", "mobile"} : ud[field] = ""
    THEN "Please fill in required fields"
    ELSE IF ud.email = <<>> \/ ud.total_budget = 0
    THEN "Please fill in required fields"
    ELSE IF ud.return_date < ud.departure_date
    THEN "Return date must be after departure date."
    ELSE IF ~EmailMatches(ud.email)
    THEN "Please enter a valid email address."
    ELSE ""

\* the first check of run that fails, "" when the request passes them all
InputError(ud) ==
    IF \E field \in {"name", "destination", "departure_city", "mobile"} : ud[field] = ""
    THEN "Please fill in required fields"
    ELSE IF ud.email = <<>> \/ ud.total_budget = 0
    THEN "Please fill in required fields"
    ELSE IF ud.return_date < ud.departure_date
    THEN "Return date must be after departure date."
    ELSE IF ud.transport_mode = <<>>
    THEN "Please select your preferred transportation."
    ELSE IF ~EmailMatches(ud.email)
    THEN "Please enter a valid email address."
    ELSE ""

\* st.error, st.markdown, st.success, st.warning: an element put on the page
Element(kind, about, body) == [kind |-> kind, about |-> about, body |-> body]

\* the footer at the end of run
Footer == Element("markdown", "Powered by AI + Real-time Travel Data", <<>>)

\* the checks of the request; a failed one is reported and run returns,
\* otherwise gather_travel_data is called
Validate ==
    /\ run_pc = "validate"
    /\ IF InputError(user_data) # ""
       THEN /\ shown' = Append(shown, Element("error", InputError(user_data), <<>>))
            /\ run_pc' = "returned"
            /\ UNCHANGED <<gather_pc, travel_data>>
       ELSE /\ shown' = shown
            /\ run_pc' = "generate"
            /\ gather_pc' = "wikipedia"
            /\ travel_data' = EmptyTravelData
    /\ UNCHANGED <<user_data, calls, responses, groq_client, trip_plan, budgetVars, itinVars,
                   priceVars, pdfVars, mailVars>>

\* generate_trip_plan_with_data: the call of the model answers with a plan,
\* here "## Trip Overview", or with no content, or it raises
generate_trip_plan_with_data(client, completion) ==
    IF client = "none" THEN ErrorNoClient
    ELSE IF completion = "raises" THEN ErrorGeneration
    ELSE IF completion = "content"
    THEN << "#", "#", " ", "T", "r", "i", "p", " ", "O", "v", "e", "r", "v", "i", "e", "w" >>
    ELSE <<>>

\* trip_plan = self.generate_trip_plan_with_data(user_data, travel_data),
\* once gather_travel_data has returned; its exception leaves run
Generate ==
    /\ run_pc = "generate"
    /\ gather_pc \in {"returned", "raised"}
    /\ IF gather_pc = "raised"
       THEN run_pc' = "raised" /\ trip_plan' = trip_plan
       ELSE /\ run_pc' = "display"
            /\ \E completion \in {"content", "no content", "raises"} :
                  trip_plan' = generate_trip_plan_with_data(groq_client, completion)
    /\ UNCHANGED <<user_data, groq_client, shown, budgetVars, itinVars, priceVars, gatherVars,
                   pdfVars, mailVars>>

\* if trip_plan and not trip_plan.startswith("An error"): the plan is
\* displayed and send_email is called; else the failure is reported
Display ==
    /\ run_pc = "display"
    /\ IF trip_plan # <<>> /\ ~StartsWith(trip_plan, << "A", "n", " ", "e", "r", "r", "o", "r" >>)
       THEN /\ shown' = Append(shown, Element("markdown", "Your Personalized Trip Plan", trip_plan))
            /\ run_pc' = "deliver"
            /\ mail_pc' = "credentials"
       ELSE /\ shown' = shown \o <<Element("error", "Failed to generate trip plan", trip_plan),
                                   Footer>>
            /\ run_pc' = "returned"
            /\ mail_pc' = mail_pc
    /\ UNCHANGED <<user_data, groq_client, trip_plan, secrets, mail_result, smtp, budgetVars,
                   itinVars, priceVars, gatherVars, pdfVars>>

\* a run that calls send_email again when the delivery has failed
FinishRetryingDelivery ==
    /\ run_pc = "deliver"
    /\ mail_pc \in {"returned", "raised"}
    /\ IF mail_pc = "returned" /\ ~mail_result /\ smtp # <<>>
       THEN /\ mail_pc' = "credentials"
            /\ smtp' = <<>>
            /\ UNCHANGED <<run_pc, shown>>
       ELSE /\ run_pc' = IF mail_pc = "raised" THEN "raised" ELSE "returned"
            /\ shown' = IF mail_pc = "raised" THEN shown ELSE Append(shown, Footer)
            /\ UNCHANGED <<mail_pc, smtp>>
    /\ UNCHANGED <<user_data, groq_client, trip_plan, budgetVars, itinVars, priceVars, gatherVars,
                   pdfVars, secrets, mail_result>>

\* the message after send_email has returned, and the footer
Finish ==
    /\ run_pc = "deliver"
    /\ mail_pc \in {"returned", "raised"}
    /\ IF mail_pc = "raised"
       THEN run_pc' = "raised" /\ shown' = shown
       ELSE /\ run_pc' = "returned"
            /\ shown' = shown \o
                  << IF mail_result
                     THEN Element("success", "Trip plan sent successfully", <<>>)
                     ELSE Element("warning", "Trip plan created successfully, but email delivery failed.", <<>>),
                     Footer >>
    /\ UNCHANGED <<user_data, groq_client, trip_plan, budgetVars, itinVars, priceVars, gatherVars,
                   pdfVars, mailVars>>

\* requests of the runs: two that pass the checks, one of them with a
\* destination outside Latin-1, and requests that fail one check or two
RunRequests ==
    { [DefaultRequest EXCEPT !.destination = "Delhi"],
      [DefaultRequest EXCEPT !.destination = Tokyo],
      [DefaultRequest EXCEPT !.name = ""],
      [DefaultRequest EXCEPT !.departure_date = Today + 1],
      [DefaultRequest EXCEPT !.transport_mode = <<>>],
      [DefaultRequest EXCEPT !.departure_date = Today + 1, !.transport_mode = <<>>],
      [DefaultRequest EXCEPT !.email = <<"a", "@", "b">>] }

\* app = AITripPlanner(): initialize_groq makes the client when the key is
\* set; app.run() with the form filled in and the button pressed.  The
\* secrets are as the deployment sets them: without a secrets file reading
\* them raises, an unset secret reads as None.
Init ==
    /\ user_data \in RunRequests
    /\ secrets \in
          LET set == [readable |-> TRUE, GROQ_API_KEY |-> "gsk",
                      SENDER_EMAIL |-> "planner@gmail.com", SENDER_PASSWORD |-> "app password"]
          IN  { set,
                [set EXCEPT !.GROQ_API_KEY = ""],
                [set EXCEPT !.SENDER_EMAIL = ""],
                [set EXCEPT !.SENDER_PASSWORD = ""],
                [readable |-> FALSE, GROQ_API_KEY |-> "", SENDER_EMAIL |-> "",
                 SENDER_PASSWORD |-> ""] }
    /\ groq_client = IF secrets.readable /\ secrets.GROQ_API_KEY # "" THEN "client" ELSE "none"
    /\ run_pc = "validate"
    /\ trip_plan = <<>>
    /\ shown = <<>>
    /\ mail_pc = "idle"
    /\ mail_result = FALSE
    /\ smtp = <<>>
    /\ clock = Today
    /\ fpdf \in {"PyFPDF", "fpdf2"}
    /\ pdf_pc = "idle"
    /\ pdf = <<>>
    /\ GatherIdle
    /\ BudgetIdle
    /\ ItineraryIdle
    /\ PricesIdle

Next ==
    \/ Validate
    \/ NextGather
    \/ Generate
    \/ Display
    \/ ReadSecrets
    \/ NextDocument
    \/ AttachDocument
    \/ Smtp
    \/ Finish

Spec == Init /\ [][Next]_vars

\* the request passes the checks of run
ValidRequest == InputError(user_data) = ""

\* all four providers were queried and every query failed
AllProvidersFailed == Len(calls) = 4 /\ \A i \in 1..4 : Failed(i)

\* run has called send_email with the sender's credentials set, so that the
\* document is asked for
DocumentRequested ==
    /\ mail_pc # "idle"
    /\ secrets.readable
    /\ secrets.SENDER_EMAIL # ""
    /\ secrets.SENDER_PASSWORD # ""

\* create_structured_pdf has returned a document with the ten sections
CompleteDocument == pdf_pc = "returned" /\ SectionsWritten = SectionOrder

(***************************************************************************)
(* C11: when all four provider calls fail for a valid request, the         *)
(* pipeline still assembles a complete document with every one of its ten  *)
(* sections; a provider failure alone never makes run abort and never      *)
(* leaves a section out.                                                   *)
(***************************************************************************)
C11_CompleteDocumentWhenProvidersFail ==
    /\ run_pc # "raised"
    /\ (ValidRequest /\ AllProvidersFailed /\ DocumentRequested /\ run_pc = "returned")
          => CompleteDocument

\* when every failure is one the search methods catch and the destination
\* can be encoded in Latin-1, run does not abort, and with all four
\* providers failed the document asked for is complete
CaughtProviderFailuresKeepDocument ==
    ((\A i \in 1..Len(calls) : calls[i] \in {"hotels", "transport"} /\ responses[i].status = "ok"
                                  => MarketRaises(duckduckgo_search(responses[i])) = "")
     /\ Latin1(user_data.destination)) =>
        /\ run_pc # "raised"
        /\ (ValidRequest /\ AllProvidersFailed /\ DocumentRequested /\ run_pc = "returned")
              => CompleteDocument

(***************************************************************************)
(* C12: a request whose return date is before its departure date, or whose *)
(* selection of transport modes is empty, is reported as an input error    *)
(* and the pipeline does not run for it: no provider is queried, no        *)
(* generation is requested, no document is assembled, no mail is sent.     *)
(***************************************************************************)
C12_InvalidRequestDoesNotRun ==
    (user_data.return_date < user_data.departure_date \/ user_data.transport_mode = <<>>) =>
        /\ run_pc \in {"validate", "returned"}
        /\ gather_pc = "idle" /\ calls = <<>>
        /\ trip_plan = <<>>
        /\ pdf_pc = "idle" /\ pdf = <<>>
        /\ mail_pc = "idle" /\ smtp = <<>>
        /\ run_pc = "returned" =>
              /\ Len(shown) = 1
              /\ shown[1].kind = "error"
              /\ shown[1].about \in {"Please fill in required fields",
                                     "Return date must be after departure date.",
                                     "Please select your preferred transportation."}

\* run has returned for a request without a transport mode, whose dates
\* are in order, with the error of the transport modes on the page
C12_Witness ==
    /\ run_pc = "returned"
    /\ user_data.transport_mode = <<>>
    /\ user_data.return_date >= user_data.departure_date
    /\ shown = <<Element("error", "Please select your preferred transportation.", <<>>)>>
    /\ calls = <<>>

(***************************************************************************)
(* C14: whenever generate_trip_plan_with_data returns one of its error     *)
(* sentinels, the text for a missing client or the text for a call that    *)
(* raised, run treats the generation as failed: it reports the failure,    *)
(* does not display the text as a trip plan, builds no document and does   *)
(* not call send_email.                                                    *)
(***************************************************************************)
C14_ErrorSentinelIsFailedGeneration ==
    trip_plan \in {ErrorNoClient, ErrorGeneration} =>
        /\ \A i \in 1..Len(shown) : shown[i].kind = "markdown" => shown[i].body # trip_plan
        /\ pdf_pc = "idle"
        /\ mail_pc = "idle"
        /\ run_pc = "returned" =>
              \E i \in 1..Len(shown) :
                 shown[i] = Element("error", "Failed to generate trip plan", trip_plan)

\* the sentinel of a call that raised is treated as a failed generation
RaisedGenerationIsFailedGeneration ==
    trip_plan = ErrorGeneration =>
        /\ \A i \in 1..Len(shown) : shown[i].kind = "markdown" => shown[i].body # trip_plan
        /\ pdf_pc = "idle"
        /\ mail_pc = "idle"
        /\ run_pc = "returned" =>
              \E i \in 1..Len(shown) :
                 shown[i] = Element("error", "Failed to generate trip plan", trip_plan)

(***************************************************************************)
(* C15: send_email always returns a boolean and lets no exception escape:  *)
(* missing credentials of the sender, a failed rendering of the document   *)
(* (no bytes, or an exception while the PDF is built) and a failure of     *)
(* SMTP all give False; True is returned only after the message was handed *)
(* to the SMTP server.                                                     *)
(***************************************************************************)
C15_SendEmailReturnsBoolean ==
    /\ mail_pc # "raised"
    /\ mail_result \in BOOLEAN
    /\ mail_pc = "returned" =>
          /\ (~secrets.readable \/ secrets.SENDER_EMAIL = "" \/ secrets.SENDER_PASSWORD = "")
                => ~mail_result
          /\ (pdf_pc = "raised" \/ (pdf_pc = "returned" /\ pdf = <<>>)) => ~mail_result
          /\ (\E i \in 1..Len(smtp) : ~smtp[i].ok) => ~mail_result
          /\ mail_result => \E i \in 1..Len(smtp) : smtp[i] = [command |-> "send_message", ok |-> TRUE]

\* send_email has returned False after the building of the PDF raised
C15_Witness ==
    /\ mail_pc = "returned"
    /\ pdf_pc = "raised"
    /\ ~mail_result
    /\ smtp = <<>>

\* how far a handled request has come: validation, gathering and
\* generation, the display of the plan, delivery, the end of run
StepOfRun(pc) ==
    CASE pc = "validate" -> 1 [] pc = "generate" -> 2 [] pc = "display" -> 3
      [] pc = "deliver" -> 4 [] OTHER -> 5

\* how far gather_travel_data has come
StepOfGather(pc) ==
    CASE pc = "idle" -> 0 [] pc = "wikipedia" -> 1 [] pc = "openstreetmap" -> 2
      [] pc = "hotels" -> 3 [] pc = "transport" -> 4 [] OTHER -> 5

\* how far send_email has come
StepOfMail(pc) ==
    CASE pc = "idle" -> 0 [] pc = "credentials" -> 1 [] pc = "render" -> 2
      [] pc = "smtp" -> 3 [] OTHER -> 4

\* how far create_structured_pdf has come
StepOfDocument(pc) ==
    IF pc = "idle" THEN 0
    ELSE IF pc \in {"output", "returned", "raised"} THEN Len(SectionOrder) + 2
    ELSE IF pc = "title" THEN 1
    ELSE 1 + Minimum({i \in 1..Len(SectionOrder) : SectionOrder[i] = pc})

\* C28: within one handled request the steps of run occur in the order
\* validation, gathering, generation, delivery, each at most once: the plan
\* is generated only after gather_travel_data has returned, send_email and
\* the assembly of the document start at most once and only after the
\* generation has returned, and a delivery that failed is never tried again
C28_StepsInOrderEachOnce ==
    [][ /\ StepOfRun(run_pc') >= StepOfRun(run_pc)
        /\ StepOfGather(gather_pc') >= StepOfGather(gather_pc)
        /\ StepOfMail(mail_pc') >= StepOfMail(mail_pc)
        /\ StepOfDocument(pdf_pc') >= StepOfDocument(pdf_pc)
        \* gathering starts when the request has passed validation
        /\ gather_pc' # gather_pc /\ gather_pc = "idle" =>
              run_pc = "validate" /\ run_pc' = "generate" /\ InputError(user_data) = ""
        /\ gather_pc' # gather_pc => run_pc' \in {"generate"}
        \* generation follows the return of gather_travel_data, and happens once
        /\ run_pc = "generate" /\ run_pc' = "display" => gather_pc = "returned"
        /\ trip_plan' # trip_plan => run_pc = "generate" /\ gather_pc = "returned"
        \* send_email starts once the generation has returned
        /\ mail_pc' # mail_pc /\ mail_pc = "idle" => run_pc = "display" /\ run_pc' = "deliver"
        /\ mail_pc' # mail_pc => run_pc' = "deliver"
        \* the document is assembled within send_email
        /\ pdf_pc' # pdf_pc => mail_pc' = "render"
        \* a command is sent once, and none after one that failed
        /\ smtp' # smtp =>
              /\ mail_pc = "smtp"
              /\ \E sent \in [command : {"connect", "starttls", "login", "send_message", "quit"},
                              ok : BOOLEAN] : smtp' = Append(smtp, sent)
              /\ \A i \in 1..Len(smtp) : smtp[i].ok /\ smtp[i].command # smtp'[Len(smtp')].command
      ]_vars

\* the document of a request: what create_structured_pdf writes, section
\* after section, for the request alone
DocumentOf(ud) == DocumentParts(ud, Today)

\* C29: the assembled document depends only on the request: whatever
\* gather_travel_data returned and whatever text was generated, the sections
\* and their content are those of the request
C29_DocumentIgnoresGatheredDataAndPlan ==
    \/ pdf = <<>>
    \/ /\ gather_pc = "returned"
       /\ trip_plan # <<>>
       /\ \E document \in {DocumentOf(user_data)} :
             /\ Len(pdf) <= Len(document)
             /\ pdf = SubSeq(document, 1, Len(pdf))
             /\ pdf_pc = "returned" => pdf = document

\* the document of a run in which every provider failed and the text
\* generated is the sentinel of the missing client
C29_Witness ==
    /\ pdf_pc = "returned"
    /\ AllProvidersFailed
    /\ trip_plan = ErrorNoClient
    /\ pdf = DocumentOf(user_data)

\* the same request with every provider answering and a generated plan
DocumentOfAnsweredRun ==
    /\ pdf_pc = "returned"
    /\ \A i \in 1..4 : ~Failed(i)
    /\ trip_plan # ErrorNoClient
    /\ user_data = [DefaultRequest EXCEPT !.destination = "Delhi"]
    /\ pdf = DocumentOf(user_data)

\* a request went through validation, gathering, generation and a delivery
\* that failed at the login, and run has returned
C28_Witness ==
    /\ run_pc = "returned"
    /\ Len(calls) = 4
    /\ trip_plan # <<>>
    /\ Len(pdf) = 11
    /\ smtp = << [command |-> "connect", ok |-> TRUE], [command |-> "starttls", ok |-> TRUE],
                 [command |-> "login", ok |-> FALSE] >>
    /\ mail_pc = "returned"
    /\ ~mail_result

=============================================================================
